---- MODULE Spec2Model ----
(***************************************************************************)
(* Solar Factions: the tick-based scheduler of src/simple/game_loop.py     *)
(* (class GameLoop) as a state machine.  One controlling thread calls the  *)
(* public operations; start() spawns a logic thread (_game_loop) and a     *)
(* presentation thread (_render_loop); the three kinds of thread share     *)
(* GameState and one threading.Lock.                                       *)
(*                                                                         *)
(* Units.  The speed multiplier is kept in tenths (1.0 is 10), and times   *)
(* of the simulation clock in tenths of the nominal tick interval, so that *)
(* tick_interval * speed_multiplier is the integer TickInterval * s / 10.  *)
(*                                                                         *)
(* time.time() is an input: a loop iteration that finds its interval not   *)
(* elapsed only sleeps and changes nothing, so only the iterations that    *)
(* find it elapsed are steps of the model.                                 *)
(*                                                                         *)
(* self.state.tick += 1 and self.state.game_time += dt are a read and a    *)
(* later write, done outside thread_lock by whichever thread advances.     *)
(***************************************************************************)
EXTENDS Integers, Sequences, FiniteSets, TLC

\* ---- bounds of the model -------------------------------------------------
MaxThreads  == 1    \* logic (and presentation) threads alive at one time
MaxSystems  == 2    \* callbacks registered in each list
MaxAdvances == 3    \* logic advances begun since construction

\* ---- program constants ---------------------------------------------------
SpeedScale   == 10                       \* tenths: 1.0 is written 10
TickInterval == 10                       \* 1.0 / target_tps, in tenths of itself
MinSpeed     == 1                        \* 0.1
MaxSpeed     == 100                      \* 10.0
SpeedInputs  == {0, 20, 150}             \* arguments of set_speed: 0.0, 2.0, 15.0

\* ---- threads -------------------------------------------------------------
Ctl      == 0                                    \* the controlling thread
Logic    == 1 .. MaxThreads                      \* slots of threads running _game_loop
Render   == (MaxThreads + 1) .. (2 * MaxThreads) \* slots of threads running _render_loop
\* one more slot of each kind, for a start() that finds the threads of an
\* earlier start() still alive
LogicAll  == Logic \cup {2 * MaxThreads + 1}
RenderAll == Render \cup {2 * MaxThreads + 2}
Actors   == {Ctl} \cup LogicAll \cup RenderAll
Updaters == {Ctl} \cup Logic                     \* who may call _update_game_logic
NoThread == -1                                   \* None / lock not held

VARIABLES
    is_running,        \* GameState.is_running
    is_paused,         \* GameState.is_paused
    speed_multiplier,  \* GameState.speed_multiplier, in tenths
    tick,              \* GameState.tick
    game_time,         \* GameState.game_time, in tenths of tick_interval
    update_systems,    \* GameLoop.update_systems
    render_systems,    \* GameLoop.render_systems
    game_thread,       \* GameLoop.game_thread (a slot of Logic, or NoThread)
    render_thread,     \* GameLoop.render_thread
    thread_lock,       \* holder of GameLoop.thread_lock, or NoThread
    pc,                \* where each thread is
    idx,               \* position of the for loop over the callback list
    dt,                \* local dt of the advance in progress
    rd,                \* value read by the += in progress
    called,            \* callbacks invoked so far by the advance in progress
    advances,          \* logic advances begun since construction
    ctl_pre,           \* State when the call in progress (step, stop) began
    expect_tick,       \* tick at the last pause() plus the step() calls since
    now,               \* time.time(), in tenths of tick_interval
    last_tick_time,    \* GameLoop.last_tick_time
    behaviors,         \* AISystem.behaviors, in insertion order
    ai_state,          \* AISystem.entity_ai_states[e] of the one entity e
    ai_component,      \* e.components['ai']
    best_behavior,     \* name selected by the last AISystem.update
    ai_updates,        \* calls of AISystem.update so far
    position,          \* e.position: its x, in twentieths of a unit
    movement_behaviors,\* MovementSystem.behaviors, in insertion order
    entity_behaviors,  \* MovementSystem.entity_behaviors[e]
    entity_movements,  \* MovementSystem.entity_movements[e]
    used_target,       \* target the last movement update steered to
    mv_updates,        \* calls of MovementSystem.update so far
    mv_time,           \* sum of the dt of these calls, in twentieths
    origin,            \* where e was created
    raised,            \* what the last update of a system raised
    ai_time,           \* sum of the dt of the timed decision updates
    seen_at            \* ai_time when a hunt last recorded the other entity

vars == <<is_running, is_paused, speed_multiplier, tick, game_time,
          update_systems, render_systems, game_thread, render_thread,
          thread_lock, pc, idx, dt, rd, called, advances,
          ctl_pre, expect_tick, now, last_tick_time,
          behaviors, ai_state, ai_component, best_behavior, ai_updates,
          position, movement_behaviors, entity_behaviors, entity_movements,
          used_target, mv_updates, mv_time, origin,
          raised, ai_time, seen_at>>

flags   == <<is_running, is_paused>>
clock   == <<tick, game_time>>
systems == <<update_systems, render_systems>>
handles == <<game_thread, render_thread>>
locals  == <<idx, dt, rd, called>>
wall    == <<now, last_tick_time>>
ai_vars == <<behaviors, ai_state, ai_component, best_behavior, ai_updates>>
mv_vars == <<position, movement_behaviors, entity_behaviors, entity_movements,
             used_target, mv_updates, mv_time, origin>>
ai_clock == <<ai_time, seen_at>>
watch    == <<raised, ai_clock>>

\* The three states of the documented state machine.
State ==
    IF ~is_running THEN "Stopped"
    ELSE IF is_paused THEN "RunningPaused" ELSE "Running"

Min(a, b) == IF a < b THEN a ELSE b
Max(a, b) == IF a > b THEN a ELSE b
Abs(x)  == IF x < 0 THEN -x ELSE x
Sign(x) == IF x < 0 THEN -1 ELSE IF x > 0 THEN 1 ELSE 0

\* a clamp without its upper limit: max(0.1, multiplier)
Clamp_no_ceiling(m) == Max(MinSpeed, m)

\* max(0.1, min(10.0, multiplier))
Clamp(m) == Max(MinSpeed, Min(MaxSpeed, m))

\* self.tick_interval * self.state.speed_multiplier
ScaledDt == (TickInterval * speed_multiplier) \div SpeedScale

\* time_since_last_tick >= adjusted_interval (lines 138-142), that is
\* now - last_tick_time >= tick_interval / speed_multiplier
Elapsed ==
    (now - last_tick_time) * speed_multiplier >= TickInterval * SpeedScale

\* ctl_pre while the controlling thread is in no call
NoCall == "-"

\* absent values of the decision system: no entry of entity_ai_states, no
\* 'ai' component, best_behavior = None
NoState     == [absent |-> "state"]
NoComponent == [absent |-> "component"]
NoBehavior  == "None"

\* absent values of the movement system: no entry of entity_movements; and
\* an optional value (a target position, an entry of a dict) is the empty
\* set when it is None or missing and {v} when it is v
NoMovement  == [absent |-> "movement"]
None        == {}
\* no exception raised; never
NoError     == "None"
Never       == -1
Some(v)     == {v}

\* threading.Thread.is_alive
Alive(t) == pc[t] # "none"

FreeSlot(S) == CHOOSE s \in S : ~Alive(s) /\ \A r \in S : ~Alive(r) => s <= r

Init ==
    /\ is_running = FALSE
    /\ is_paused = FALSE
    /\ speed_multiplier = SpeedScale
    /\ tick = 0
    /\ game_time = 0
    /\ update_systems = <<>>
    /\ render_systems = <<>>
    /\ game_thread = NoThread
    /\ render_thread = NoThread
    /\ thread_lock = NoThread
    /\ pc = [a \in Actors |-> IF a = Ctl THEN "idle" ELSE "none"]
    /\ idx = [a \in Actors |-> 0]
    /\ dt = [a \in Actors |-> 0]
    /\ rd = [a \in Actors |-> 0]
    /\ called = [a \in Actors |-> <<>>]
    /\ advances = 0
    /\ ctl_pre = NoCall
    /\ expect_tick = -1
    /\ now = 0
    /\ last_tick_time = 0
    /\ behaviors = <<>>
    /\ ai_state = NoState
    /\ ai_component = NoComponent
    /\ best_behavior = NoBehavior
    /\ ai_updates = 0
    /\ position = 0
    /\ movement_behaviors = <<>>
    /\ entity_behaviors = NoBehavior
    /\ entity_movements = NoMovement
    /\ used_target = None
    /\ mv_updates = 0
    /\ mv_time = 0
    /\ origin = 0
    /\ raised = NoError
    /\ ai_time = 0
    /\ seen_at = Never

\* ---- registration (controlling thread) -----------------------------------
\* A callback is named by its position of registration; each registration
\* appends a new one.  (Bound: at most MaxSystems per list.)  The lists only
\* grow here: remove_update_system and remove_render_system are left out.

\* GameLoop.add_update_system
add_update_system ==
    /\ pc[Ctl] = "idle"
    /\ Len(update_systems) < MaxSystems
    /\ update_systems' = Append(update_systems, Len(update_systems) + 1)
    /\ UNCHANGED <<flags, speed_multiplier, clock, render_systems, handles,
                   thread_lock, pc, locals, advances, ctl_pre, expect_tick,
                   wall, ai_vars, mv_vars, watch>>

\* GameLoop.add_render_system
add_render_system ==
    /\ pc[Ctl] = "idle"
    /\ Len(render_systems) < MaxSystems
    /\ render_systems' = Append(render_systems, Len(render_systems) + 1)
    /\ UNCHANGED <<flags, speed_multiplier, clock, update_systems, handles,
                   thread_lock, pc, locals, advances, ctl_pre, expect_tick,
                   wall, ai_vars, mv_vars, watch>>

\* ---- control surface (controlling thread) --------------------------------

\* start() that forgets line 84 (is_paused = False)
start_keeps_pause ==
    /\ pc[Ctl] = "idle"
    /\ IF is_running
       THEN UNCHANGED vars
       ELSE /\ \E s \in Logic : ~Alive(s)
            /\ \E s \in Render : ~Alive(s)
            /\ is_running' = TRUE
            /\ game_thread' = FreeSlot(Logic)
            /\ render_thread' = FreeSlot(Render)
            /\ pc' = [pc EXCEPT ![FreeSlot(Logic)] = "loop",
                                ![FreeSlot(Render)] = "loop"]
            /\ last_tick_time' = now
            /\ expect_tick' = -1
            /\ UNCHANGED <<is_paused, speed_multiplier, clock, systems,
                           thread_lock, locals, advances, ctl_pre,
                           now, ai_vars, mv_vars, watch>>

\* GameLoop.start: returns at once when running; otherwise sets the flags
\* and last_tick_time and starts one thread on _game_loop and one on _render_loop.
\* (Bound: a slot must be free in L and in R.)
start_threads(L, R) ==
    /\ pc[Ctl] = "idle"
    /\ IF is_running
       THEN UNCHANGED vars
       ELSE /\ \E s \in L : ~Alive(s)
            /\ \E s \in R : ~Alive(s)
            /\ is_running' = TRUE
            /\ is_paused' = FALSE
            /\ game_thread' = FreeSlot(L)
            /\ render_thread' = FreeSlot(R)
            /\ pc' = [pc EXCEPT ![FreeSlot(L)] = "loop",
                                ![FreeSlot(R)] = "loop"]
            /\ last_tick_time' = now
            /\ expect_tick' = -1
            /\ UNCHANGED <<speed_multiplier, clock, systems, thread_lock,
                           locals, advances, ctl_pre,
                           now, ai_vars, mv_vars, watch>>

\* start() with the slots of the scheduler
start == start_threads(Logic, Render)

\* stop() that also clears the pause flag
stop_clears_pause ==
    /\ pc[Ctl] = "idle"
    /\ is_running' = FALSE
    /\ is_paused' = FALSE
    /\ pc' = [pc EXCEPT ![Ctl] = "join_game"]
    /\ ctl_pre' = State
    /\ expect_tick' = -1
    /\ UNCHANGED <<speed_multiplier, clock, systems, handles,
                   thread_lock, locals, advances,
                   wall, ai_vars, mv_vars, watch>>

\* GameLoop.stop, line 99: clear the flag, then go on to the joins.
stop ==
    /\ pc[Ctl] = "idle"
    /\ is_running' = FALSE
    /\ pc' = [pc EXCEPT ![Ctl] = "join_game"]
    /\ ctl_pre' = State
    /\ expect_tick' = -1
    /\ UNCHANGED <<is_paused, speed_multiplier, clock, systems, handles,
                   thread_lock, locals, advances,
                   wall, ai_vars, mv_vars, watch>>

\* thread.join(timeout=1.0) returns when the thread has finished, or when the
\* second has passed; a thread can take that long only while it runs a
\* callback or waits for thread_lock, held by a thread that runs one.
JoinReturns(t) ==
    IF t = NoThread THEN TRUE
    ELSE \/ ~Alive(t)
         \/ pc[t] \in {"in_cb", "except"}
         \/ pc[t] = "lock" /\ thread_lock # NoThread

\* GameLoop.stop, lines 102-103
stop_join_game ==
    /\ pc[Ctl] = "join_game"
    /\ JoinReturns(game_thread)
    /\ pc' = [pc EXCEPT ![Ctl] = "join_render"]
    /\ UNCHANGED <<flags, speed_multiplier, clock, systems, handles,
                   thread_lock, locals, advances, ctl_pre, expect_tick,
                   wall, ai_vars, mv_vars, watch>>

\* GameLoop.stop, lines 104-105, and return
stop_join_render ==
    /\ pc[Ctl] = "join_render"
    /\ JoinReturns(render_thread)
    /\ pc' = [pc EXCEPT ![Ctl] = "idle"]
    /\ ctl_pre' = NoCall
    /\ UNCHANGED <<flags, speed_multiplier, clock, systems, handles,
                   thread_lock, locals, advances, expect_tick,
                   wall, ai_vars, mv_vars, watch>>

\* GameLoop.pause
pause ==
    /\ pc[Ctl] = "idle"
    /\ is_paused' = TRUE
    /\ expect_tick' = IF is_running THEN tick ELSE -1
    /\ UNCHANGED <<is_running, speed_multiplier, clock, systems, handles,
                   thread_lock, pc, locals, advances, ctl_pre,
                   wall, ai_vars, mv_vars, watch>>

\* GameLoop.resume
resume ==
    /\ pc[Ctl] = "idle"
    /\ is_paused' = FALSE
    /\ expect_tick' = -1
    /\ UNCHANGED <<is_running, speed_multiplier, clock, systems, handles,
                   thread_lock, pc, locals, advances, ctl_pre,
                   wall, ai_vars, mv_vars, watch>>

\* GameLoop.set_speed
set_speed(m) ==
    /\ pc[Ctl] = "idle"
    /\ speed_multiplier' = Clamp(m)
    /\ UNCHANGED <<flags, clock, systems, handles, thread_lock, pc, locals,
                   advances, ctl_pre, expect_tick,
                   wall, ai_vars, mv_vars, watch>>

\* step() that also returns when the interval of the cadence has not elapsed
step_when_elapsed ==
    /\ pc[Ctl] = "idle"
    /\ IF ~is_running \/ ~Elapsed
       THEN UNCHANGED vars
       ELSE /\ advances < MaxAdvances
            /\ advances' = advances + 1
            /\ dt' = [dt EXCEPT ![Ctl] = ScaledDt]
            /\ pc' = [pc EXCEPT ![Ctl] = "lock"]
            /\ ctl_pre' = State
            /\ UNCHANGED <<flags, speed_multiplier, clock, systems, handles,
                           thread_lock, idx, rd, called, expect_tick,
                           wall, ai_vars, mv_vars, watch>>

\* step() without the test of lines 121-122
step_while_stopped ==
    /\ pc[Ctl] = "idle"
    /\ advances < MaxAdvances
    /\ advances' = advances + 1
    /\ dt' = [dt EXCEPT ![Ctl] = ScaledDt]
    /\ pc' = [pc EXCEPT ![Ctl] = "lock"]
    /\ ctl_pre' = State
    /\ UNCHANGED <<flags, speed_multiplier, clock, systems, handles,
                   thread_lock, idx, rd, called, expect_tick,
                   wall, ai_vars, mv_vars, watch>>

\* GameLoop.step, lines 121-125: return when not running; otherwise compute
\* dt and enter _update_game_logic.  (Bound: MaxAdvances.)
step ==
    /\ pc[Ctl] = "idle"
    /\ IF ~is_running
       THEN UNCHANGED vars
       ELSE /\ advances < MaxAdvances
            /\ advances' = advances + 1
            /\ dt' = [dt EXCEPT ![Ctl] = ScaledDt]
            /\ pc' = [pc EXCEPT ![Ctl] = "lock"]
            /\ ctl_pre' = State
            /\ UNCHANGED <<flags, speed_multiplier, clock, systems, handles,
                           thread_lock, idx, rd, called, expect_tick,
                           wall, ai_vars, mv_vars, watch>>

\* ---- one logic advance (logic thread or step()) --------------------------

\* Where a thread goes when it has finished what it was doing.
Home(a) == IF a = Ctl THEN "idle" ELSE "loop"

\* _update_game_logic, lines 203-205: the for loop starts; the first callback
\* is called, or with none registered the with block is left at once.
update_first(a) ==
    /\ IF update_systems = <<>>
       THEN /\ pc' = [pc EXCEPT ![a] = "rd_tick"]
            /\ UNCHANGED <<thread_lock, idx, called>>
       ELSE /\ thread_lock' = a
            /\ pc' = [pc EXCEPT ![a] = "in_cb"]
            /\ idx' = [idx EXCEPT ![a] = 1]
            /\ called' = [called EXCEPT ![a] = <<update_systems[1]>>]
    /\ UNCHANGED <<flags, speed_multiplier, clock, systems, handles, dt, rd,
                   advances, ctl_pre, expect_tick,
                   wall, ai_vars, mv_vars, watch>>

\* _update_game_logic that does not wait for thread_lock
update_game_logic_nolock(a) ==
    /\ pc[a] = "lock"
    /\ update_first(a)

\* _update_game_logic, line 202: with self.thread_lock
update_game_logic_enter(a) ==
    /\ pc[a] = "lock"
    /\ thread_lock = NoThread
    /\ update_first(a)

\* the for loop of _update_game_logic leaving the with block without
\* releasing thread_lock
update_for_next_keeps_lock(a) ==
    /\ IF idx[a] < Len(update_systems)
       THEN /\ idx' = [idx EXCEPT ![a] = @ + 1]
            /\ called' = [called EXCEPT ![a] =
                              Append(@, update_systems[idx[a] + 1])]
            /\ pc' = [pc EXCEPT ![a] = "in_cb"]
            /\ UNCHANGED thread_lock
       ELSE /\ idx' = [idx EXCEPT ![a] = 0]
            /\ called' = [called EXCEPT ![a] = <<>>]
            /\ UNCHANGED thread_lock
            /\ pc' = [pc EXCEPT ![a] = "rd_tick"]
    /\ UNCHANGED <<flags, speed_multiplier, clock, systems, handles, dt, rd,
                   advances, ctl_pre, expect_tick,
                   wall, ai_vars, mv_vars, watch>>

\* _update_game_logic, line 203: the for loop takes the next callback of the
\* list as it is now and calls it, or ends, and the with block releases the
\* lock.
update_for_next(a) ==
    /\ IF idx[a] < Len(update_systems)
       THEN /\ idx' = [idx EXCEPT ![a] = @ + 1]
            /\ called' = [called EXCEPT ![a] =
                              Append(@, update_systems[idx[a] + 1])]
            /\ pc' = [pc EXCEPT ![a] = "in_cb"]
            /\ UNCHANGED thread_lock
       ELSE /\ idx' = [idx EXCEPT ![a] = 0]
            /\ called' = [called EXCEPT ![a] = <<>>]
            /\ thread_lock' = NoThread
            /\ pc' = [pc EXCEPT ![a] = "rd_tick"]
    /\ UNCHANGED <<flags, speed_multiplier, clock, systems, handles, dt, rd,
                   advances, ctl_pre, expect_tick,
                   wall, ai_vars, mv_vars, watch>>

\* _update_game_logic, line 205: system(dt) returns.
update_system_returns(a) ==
    /\ pc[a] = "in_cb"
    /\ update_for_next(a)

\* _update_game_logic, lines 205-206: system(dt) raises an Exception, which
\* the except clause catches.
update_system_raises(a) ==
    /\ pc[a] = "in_cb"
    /\ pc' = [pc EXCEPT ![a] = "except"]
    /\ UNCHANGED <<flags, speed_multiplier, clock, systems, handles,
                   thread_lock, locals, advances, ctl_pre, expect_tick,
                   wall, ai_vars, mv_vars, watch>>

\* an exception that is not caught: it leaves the with block (the lock is
\* released) and ends the caller, step() or the thread
update_except_propagates(a) ==
    /\ pc[a] = "except"
    /\ thread_lock' = NoThread
    /\ pc' = [pc EXCEPT ![a] = IF a = Ctl THEN "idle" ELSE "none"]
    /\ idx' = [idx EXCEPT ![a] = 0]
    /\ called' = [called EXCEPT ![a] = <<>>]
    /\ dt' = [dt EXCEPT ![a] = 0]
    /\ ctl_pre' = IF a = Ctl THEN NoCall ELSE ctl_pre
    /\ UNCHANGED <<flags, speed_multiplier, clock, systems, handles, rd,
                   advances, expect_tick,
                   wall, ai_vars, mv_vars, watch>>

\* _update_game_logic, line 207: the handler prints the error; the loop goes
\* on.
update_except(a) ==
    /\ pc[a] = "except"
    /\ update_for_next(a)

\* self.state.tick += 1 (lines 128, 150): the read
tick_read(a) ==
    /\ pc[a] = "rd_tick"
    /\ rd' = [rd EXCEPT ![a] = tick]
    /\ pc' = [pc EXCEPT ![a] = "wr_tick"]
    /\ UNCHANGED <<flags, speed_multiplier, clock, systems, handles,
                   thread_lock, idx, dt, called, advances, ctl_pre,
                   expect_tick,
                   wall, ai_vars, mv_vars, watch>>

\* self.state.tick += 1: the write; then the read of
\* self.state.game_time += dt (lines 129, 151)
tick_write(a) ==
    /\ pc[a] = "wr_tick"
    /\ tick' = rd[a] + 1
    /\ rd' = [rd EXCEPT ![a] = game_time]
    /\ pc' = [pc EXCEPT ![a] = "wr_gt"]
    /\ UNCHANGED <<flags, speed_multiplier, game_time, systems, handles,
                   thread_lock, idx, dt, called, advances, ctl_pre,
                   expect_tick,
                   wall, ai_vars, mv_vars, watch>>

\* self.state.game_time += dt: the write.  The advance is complete: step()
\* returns; the logic thread records its statistics, sets last_tick_time to
\* the time it read at the top of its iteration (line 164) and sleeps.
game_time_write(a) ==
    /\ pc[a] = "wr_gt"
    /\ game_time' = rd[a] + dt[a]
    /\ rd' = [rd EXCEPT ![a] = 0]
    /\ dt' = [dt EXCEPT ![a] = 0]
    /\ pc' = [pc EXCEPT ![a] = Home(a)]
    /\ ctl_pre' = IF a = Ctl THEN NoCall ELSE ctl_pre
    /\ last_tick_time' = IF a = Ctl THEN last_tick_time ELSE now
    /\ expect_tick' = IF a = Ctl /\ expect_tick # -1
                      THEN expect_tick + 1 ELSE expect_tick
    /\ UNCHANGED <<flags, speed_multiplier, tick, systems, handles,
                   thread_lock, idx, called, advances,
                   now, ai_vars, mv_vars, watch>>

\* ---- the logic thread ----------------------------------------------------

\* _game_loop, lines 133-144: leave the loop when not running; when not
\* paused and the scaled interval has elapsed, compute dt and enter
\* _update_game_logic.  (Bound: MaxAdvances.)
game_loop(t) ==
    /\ pc[t] = "loop"
    /\ IF ~is_running
       THEN /\ pc' = [pc EXCEPT ![t] = "none"]
            /\ UNCHANGED <<dt, advances>>
       ELSE /\ ~is_paused
            /\ advances < MaxAdvances
            /\ advances' = advances + 1
            /\ dt' = [dt EXCEPT ![t] = ScaledDt]
            /\ pc' = [pc EXCEPT ![t] = "lock"]
    /\ UNCHANGED <<flags, speed_multiplier, clock, systems, handles,
                   thread_lock, idx, rd, called, ctl_pre,
                   expect_tick,
                   wall, ai_vars, mv_vars, watch>>

\* ---- the presentation thread ---------------------------------------------

\* _render_loop, lines 171-183: leave the loop when not running; when the
\* frame interval has elapsed, enter _update_render_systems.
render_loop(t) ==
    /\ pc[t] = "loop"
    /\ pc' = [pc EXCEPT ![t] = IF ~is_running THEN "none" ELSE "lock"]
    /\ UNCHANGED <<flags, speed_multiplier, clock, systems, handles,
                   thread_lock, locals, advances, ctl_pre, expect_tick,
                   wall, ai_vars, mv_vars, watch>>

\* _update_render_systems, lines 212-214: the for loop starts.
render_first(t) ==
    /\ IF render_systems = <<>>
       THEN /\ pc' = [pc EXCEPT ![t] = "loop"]
            /\ UNCHANGED <<thread_lock, idx, called>>
       ELSE /\ thread_lock' = t
            /\ pc' = [pc EXCEPT ![t] = "in_cb"]
            /\ idx' = [idx EXCEPT ![t] = 1]
            /\ called' = [called EXCEPT ![t] = <<render_systems[1]>>]
    /\ UNCHANGED <<flags, speed_multiplier, clock, systems, handles, dt, rd,
                   advances, ctl_pre, expect_tick,
                   wall, ai_vars, mv_vars, watch>>

\* _update_render_systems that does not wait for thread_lock
update_render_systems_nolock(t) ==
    /\ pc[t] = "lock"
    /\ render_first(t)

\* _update_render_systems, line 211: with self.thread_lock
update_render_systems_enter(t) ==
    /\ pc[t] = "lock"
    /\ thread_lock = NoThread
    /\ render_first(t)

\* _update_render_systems, line 212: the for loop takes the next callback or
\* ends; the lock is released and _render_loop goes on to its statistics and
\* its sleep.
render_for_next(t) ==
    /\ IF idx[t] < Len(render_systems)
       THEN /\ idx' = [idx EXCEPT ![t] = @ + 1]
            /\ called' = [called EXCEPT ![t] =
                              Append(@, render_systems[idx[t] + 1])]
            /\ pc' = [pc EXCEPT ![t] = "in_cb"]
            /\ UNCHANGED thread_lock
       ELSE /\ idx' = [idx EXCEPT ![t] = 0]
            /\ called' = [called EXCEPT ![t] = <<>>]
            /\ thread_lock' = NoThread
            /\ pc' = [pc EXCEPT ![t] = "loop"]
    /\ UNCHANGED <<flags, speed_multiplier, clock, systems, handles, dt, rd,
                   advances, ctl_pre, expect_tick,
                   wall, ai_vars, mv_vars, watch>>

\* _update_render_systems, line 214: system(dt) returns.
render_system_returns(t) ==
    /\ pc[t] = "in_cb"
    /\ render_for_next(t)

\* _update_render_systems, lines 214-215: system(dt) raises an Exception.
render_system_raises(t) ==
    /\ pc[t] = "in_cb"
    /\ pc' = [pc EXCEPT ![t] = "except"]
    /\ UNCHANGED <<flags, speed_multiplier, clock, systems, handles,
                   thread_lock, locals, advances, ctl_pre, expect_tick,
                   wall, ai_vars, mv_vars, watch>>

\* _update_render_systems, line 216: the handler prints the error.
render_except(t) ==
    /\ pc[t] = "except"
    /\ render_for_next(t)

\* ---- the scheduler -------------------------------------------------------
Next ==
    \/ add_update_system
    \/ add_render_system
    \/ start
    \/ stop
    \/ stop_join_game
    \/ stop_join_render
    \/ pause
    \/ resume
    \/ \E m \in SpeedInputs : set_speed(m)
    \/ step
    \/ \E a \in Updaters : update_game_logic_enter(a)
    \/ \E a \in Updaters : update_system_returns(a)
    \/ \E a \in Updaters : update_system_raises(a)
    \/ \E a \in Updaters : update_except(a)
    \/ \E a \in Updaters : tick_read(a)
    \/ \E a \in Updaters : tick_write(a)
    \/ \E a \in Updaters : game_time_write(a)
    \/ \E t \in Logic : game_loop(t)
    \/ \E t \in Render : render_loop(t)
    \/ \E t \in Render : update_render_systems_enter(t)
    \/ \E t \in Render : render_system_returns(t)
    \/ \E t \in Render : render_system_raises(t)
    \/ \E t \in Render : render_except(t)

Spec == Init /\ [][Next]_vars

\* ---- start() and stop() in sequence ---------------------------------------
\* The scheduler with one more slot of each kind, so that a start() can be
\* followed while the threads of the start() before it are alive.  One
\* update callback; no pause, speed change, step or failing callback.

NextThreads ==
    \/ add_update_system
    \/ start_threads(LogicAll, RenderAll)
    \/ stop
    \/ stop_join_game
    \/ stop_join_render
    \/ \E t \in LogicAll : game_loop(t)
    \/ \E t \in LogicAll : update_game_logic_enter(t)
    \/ \E t \in LogicAll : update_system_returns(t)
    \/ \E t \in LogicAll : tick_read(t)
    \/ \E t \in LogicAll : tick_write(t)
    \/ \E t \in LogicAll : game_time_write(t)
    \/ \E t \in RenderAll : render_loop(t)
    \/ \E t \in RenderAll : update_render_systems_enter(t)

SpecThreads == Init /\ [][NextThreads]_vars

\* ---- the scheduler running for ever --------------------------------------
\* For the claims about what keeps happening, the scheduler runs without
\* the bound on its advances: tick is kept modulo Wrap and game_time modulo
\* Wrap tick intervals, which leaves the order of the steps as it is.

Wrap == 2    \* tick is counted modulo Wrap

\* _game_loop, lines 133-144, as game_loop, the advances not counted
game_loop_wrap(t) ==
    /\ pc[t] = "loop"
    /\ IF ~is_running
       THEN /\ pc' = [pc EXCEPT ![t] = "none"]
            /\ UNCHANGED dt
       ELSE /\ ~is_paused
            /\ dt' = [dt EXCEPT ![t] = ScaledDt]
            /\ pc' = [pc EXCEPT ![t] = "lock"]
    /\ UNCHANGED <<flags, speed_multiplier, clock, systems, handles,
                   thread_lock, idx, rd, called, advances, ctl_pre,
                   expect_tick,
                   wall, ai_vars, mv_vars, watch>>

\* self.state.tick += 1 (line 150): the write, as tick_write
tick_write_wrap(a) ==
    /\ pc[a] = "wr_tick"
    /\ tick' = (rd[a] + 1) % Wrap
    /\ rd' = [rd EXCEPT ![a] = game_time]
    /\ pc' = [pc EXCEPT ![a] = "wr_gt"]
    /\ UNCHANGED <<flags, speed_multiplier, game_time, systems, handles,
                   thread_lock, idx, dt, called, advances, ctl_pre,
                   expect_tick,
                   wall, ai_vars, mv_vars, watch>>

\* self.state.game_time += dt (line 151): the write, as game_time_write
game_time_write_wrap(a) ==
    /\ pc[a] = "wr_gt"
    /\ game_time' = (rd[a] + dt[a]) % (Wrap * TickInterval)
    /\ rd' = [rd EXCEPT ![a] = 0]
    /\ dt' = [dt EXCEPT ![a] = 0]
    /\ pc' = [pc EXCEPT ![a] = Home(a)]
    /\ last_tick_time' = now
    /\ UNCHANGED <<flags, speed_multiplier, tick, systems, handles,
                   thread_lock, idx, called, advances, ctl_pre, expect_tick,
                   now, ai_vars, mv_vars, watch>>

\* what the two threads do
LogicSteps(t) ==
    \/ game_loop_wrap(t)
    \/ update_system_returns(t)
    \/ tick_read(t)
    \/ tick_write_wrap(t)
    \/ game_time_write_wrap(t)

RenderSteps(t) ==
    \/ render_loop(t)
    \/ render_system_returns(t)

NextLive ==
    \/ add_update_system
    \/ add_render_system
    \/ start
    \/ pause
    \/ resume
    \/ \E t \in Logic : LogicSteps(t)
    \/ \E t \in Logic : update_game_logic_enter(t)
    \/ \E t \in Render : RenderSteps(t)
    \/ \E t \in Render : update_render_systems_enter(t)

\* Fairness.  A thread that can take a step takes it, and every callback
\* returns (weak fairness of the steps of each thread).  A thread blocked in
\* `with self.thread_lock` is woken by each release, and the thread that
\* released sleeps (time.sleep(0.001), lines 167 and 198) before it asks
\* again: a thread that finds the lock free again and again gets it (strong
\* fairness of the two acquisitions).  Nothing is assumed of the controlling
\* thread.
Fairness ==
    /\ \A t \in Logic : WF_vars(LogicSteps(t))
    /\ \A t \in Render : WF_vars(RenderSteps(t))
    /\ \A t \in Logic : SF_vars(update_game_logic_enter(t))
    /\ \A t \in Render : SF_vars(update_render_systems_enter(t))

SpecLive == Init /\ [][NextLive]_vars /\ Fairness

\* the same with weak fairness only: a blocked thread can be overtaken
FairnessWeak ==
    /\ \A t \in Logic : WF_vars(LogicSteps(t) \/ update_game_logic_enter(t))
    /\ \A t \in Render :
          WF_vars(RenderSteps(t) \/ update_render_systems_enter(t))

SpecLiveWeak == Init /\ [][NextLive]_vars /\ FairnessWeak

\* ---- the logic cadence against the wall clock ----------------------------
\* One run of the scheduler with time.time() explicit.  The unit of the clock
\* is a tenth of tick_interval, coarser than the 1 ms sleep of _game_loop:
\* the logic thread finds its interval elapsed before the clock moves on, and
\* an advance (callbacks included) takes no time of this clock.  The speed is
\* set before start() and constant afterwards.

MaxNow == 10    \* the wall clock stops here

\* _game_loop, line 142: the iteration advances only when the interval has
\* elapsed
timed_game_loop(t) ==
    /\ (is_running /\ ~is_paused) => Elapsed
    /\ game_loop(t)

\* the logic thread would advance in its next iteration
LogicDue ==
    /\ is_running
    /\ ~is_paused
    /\ Elapsed
    /\ advances < MaxAdvances
    /\ \E t \in Logic : pc[t] = "loop"

\* time.time() grows between two iterations (time.sleep, line 167)
time_passes ==
    /\ now < MaxNow
    /\ \A a \in Actors : pc[a] \in {"none", "idle", "loop"}
    /\ ~LogicDue
    /\ now' = now + 1
    /\ UNCHANGED <<flags, speed_multiplier, clock, systems, handles,
                   thread_lock, pc, locals, advances, ctl_pre, expect_tick,
                   last_tick_time, ai_vars, mv_vars, watch>>

NextClock ==
    \/ time_passes
    \/ add_update_system
    \/ start
    \/ \E m \in SpeedInputs : ~is_running /\ set_speed(m)
    \/ step
    \/ \E t \in Logic : timed_game_loop(t)
    \/ \E a \in Updaters : update_game_logic_enter(a)
    \/ \E a \in Updaters : update_system_returns(a)
    \/ \E a \in Updaters : tick_read(a)
    \/ \E a \in Updaters : tick_write(a)
    \/ \E a \in Updaters : game_time_write(a)

SpecClock == Init /\ [][NextClock]_vars

\* ---- the decision system (src/simple/ai_system.py) -------------------------
\* AISystem with one entity e.  A behaviour is a record [name, type, enabled,
\* priority]: type is its class, the other three are the fields AIBehavior
\* reads from its configuration; the rates of the classes are their defaults.
\* AISystem.behaviors is a dict: its values are visited in the order in which
\* their keys were first inserted.  Energy and alertness are kept in tenths
\* (100.0 is 1000), dt and state_time in whole seconds.
\*
\* What a behaviour perceives (entities in range, its waypoints or routes) is
\* an input of the update: "found" when a target, threat or intruder is in
\* range, "clear" when none is, "early" when _execute returns before it
\* touches energy (no position, no waypoints, no trade routes).
\*
\* The registry, the state and the component are set up before the first
\* update, as GameManager does (_initialize_systems and
\* _assign_behaviors_to_entities run before the game loop is started).

MaxBehaviors == 2    \* entries of AISystem.behaviors
MaxUpdates   == 2    \* calls of AISystem.update

Tenth          == 10                  \* 1.0 of energy or alertness
Full           == 100 * Tenth         \* 100.0, the upper clamp
DefaultPriority == 0                  \* config.get('priority', 0)
NoPriority     == -1                  \* best_priority = -1

Types      == {"idle", "patrol", "hunt", "flee", "guard", "trade"}
Names      == {"idle", "patrol"}          \* names given to behaviours
Priorities == {NoPriority, DefaultPriority, 10}
\* the enabled flag and the priority of a configuration
Configs    == [enabled : {TRUE}, priority : Priorities]
                  \cup [enabled : {FALSE}, priority : {10}]
DtInputs   == {1, 2}                      \* dt of an update, seconds
Percepts   == {"early", "found", "clear"}
EnergyInputs     == {0, 25 * Tenth, Full}      \* energy=... of assign_ai
AlertnessInputs  == {0, 75 * Tenth}            \* alertness=... of assign_ai
AggressionInputs == {2, 8}                     \* aggression_level, in tenths
AiTypes    == {"basic"}                        \* ai_type of a component
NoTarget   == "None"                           \* current_target = None
NoGoal     == "None"                           \* current_goal = None
GoalInputs == {NoGoal, "explore"}              \* current_goal of a component
OtherId    == "other"                          \* id of the other entity

\* Places.  All points lie on the x axis (y = 0); an x is counted in
\* twentieths of a unit and a time of the movement system in twentieths of
\* a second, the tick of GameLoop(target_tps=20), so that speed * dt is a
\* whole number.
PerSecond   == 20
WaypointX   == 100 * PerSecond      \* the waypoint, and the trade point
OtherX      == 50 * PerSecond       \* where the other entity is
GuardX      == 0                    \* guard_position, default (0.0, 0.0)
GuardRadius == 100 * PerSecond      \* guard_radius, default 100.0
FleeRange   == 200 * PerSecond      \* flee_range, default 200.0
MemoryDuration == 10                \* memory_duration, default 10.0 seconds

\* a dict as the set of its <<key, value>> entries
Put(dict, k, v) == {e \in dict : e[1] # k} \cup {<<k, v>>}
Get(dict, k)    == {e[2] : e \in {f \in dict : f[1] = k}}

\* AIMemory()
AIMemory ==
    [last_seen_targets |-> {}, last_seen_times |-> {},
     current_target |-> NoTarget, current_goal |-> NoGoal,
     goal_data |-> {}, blackboard |-> {}]

\* no 'memory' entry in a component
NoMemory == [absent |-> "memory"]

sched == <<flags, speed_multiplier, clock, systems, handles, thread_lock,
           pc, locals, advances, ctl_pre, expect_tick, wall>>

\* AIState(behavior_name=..., energy=..., alertness=...)
AIState(n, e, a) ==
    [behavior_name |-> n, state_time |-> 0, energy |-> e, alertness |-> a,
     memory |-> AIMemory]

\* the component made by create_component('ai', ...): no 'memory' entry yet
AIComponent(ty, g, cg) ==
    [ai_type |-> ty, aggression_level |-> g, current_goal |-> cg,
     memory |-> NoMemory]

\* position of the key n in the dict, 0 when absent
KeyIndex(n) ==
    IF \E i \in 1 .. Len(behaviors) : behaviors[i].name = n
    THEN CHOOSE i \in 1 .. Len(behaviors) : behaviors[i].name = n
    ELSE 0

\* AISystem.add_behavior: self.behaviors[name] = behavior.  A new key goes to
\* the end; an existing key keeps its place and gets the new value.
add_behavior(n, ty, en, pr) ==
    /\ ai_updates = 0
    /\ KeyIndex(n) # 0 \/ Len(behaviors) < MaxBehaviors
    /\ behaviors' =
          LET b == [name |-> n, type |-> ty, enabled |-> en, priority |-> pr]
          IN  IF KeyIndex(n) # 0
              THEN [behaviors EXCEPT ![KeyIndex(n)] = b]
              ELSE Append(behaviors, b)
    /\ UNCHANGED <<sched, mv_vars, watch, ai_state, ai_component, best_behavior, ai_updates>>

\* AISystem.assign_ai: _find_entity_by_id returns None, so no component is
\* created.
assign_ai(n, e, a) ==
    /\ ai_updates = 0
    /\ ai_state' = AIState(n, e, a)
    /\ UNCHANGED <<sched, mv_vars, watch, behaviors, ai_component, best_behavior, ai_updates>>

\* _create_ai_component, lines 417-423: the type follows from what the name
\* of the initial behaviour contains
AiTypeOf(n) ==
    IF n \in {"pirate_hunt", "resource_hunter"} THEN "aggressive"
    ELSE IF n \in {"station_guard", "station_defender"} THEN "defensive"
    ELSE IF n \in {"trade_run", "trade_circuit"} THEN "merchant"
    ELSE "basic"

\* AISystem.assign_ai_to_entity: a new state, and a component built by
\* _create_ai_component
assign_ai_to_entity(n, e, a, g) ==
    /\ ai_updates = 0
    /\ ai_state' = AIState(n, e, a)
    /\ ai_component' = AIComponent(AiTypeOf(n), g, NoGoal)
    /\ UNCHANGED <<sched, mv_vars, watch, behaviors, best_behavior, ai_updates>>

\* Entity.add_component('ai', ...): an entity that comes with a component
add_component(ty, g, cg) ==
    /\ ai_updates = 0
    /\ ai_component' = AIComponent(ty, g, cg)
    /\ UNCHANGED <<sched, mv_vars, watch, behaviors, ai_state, best_behavior, ai_updates>>

\* _can_execute of each class
CanExecuteOf(ty, st) ==
    CASE ty = "idle"   -> TRUE
      [] ty = "patrol" -> st.energy > 20 * Tenth
      [] ty = "hunt"   -> st.energy > 30 * Tenth
      [] ty = "flee"   -> st.energy < 30 * Tenth \/ st.alertness > 70 * Tenth
      [] ty = "guard"  -> st.energy > 40 * Tenth
      [] ty = "trade"  -> st.energy > 25 * Tenth

\* can_execute without the test of lines 47-48
can_execute_any(b, st) == CanExecuteOf(b.type, st)

\* AIBehavior.can_execute
can_execute(b, st) ==
    IF ~b.enabled THEN FALSE ELSE CanExecuteOf(b.type, st)

\* alertness = min(100.0, alertness + rate * dt), rate in units per second
Alerted(st, rate, d) ==
    [st EXCEPT !.alertness = Min(Full, @ + rate * Tenth * d)]

\* alertness = max(0, alertness - rate * dt), rate in tenths per second
Calmed(st, rate, d) ==
    [st EXCEPT !.alertness = Max(0, @ - rate * d)]

\* energy = max(0, energy - energy_cost * dt), cost in tenths per second
Consumed(st, cost, d) ==
    [st EXCEPT !.energy = Max(0, @ - cost * d)]

\* IdleBehavior._execute with energy = energy + recovery_rate * dt, unclamped
IdleExecute_unclamped(st, d) ==
    [Calmed(st, 1, d) EXCEPT !.energy = @ + 100 * d]

\* IdleBehavior._execute: alertness decays by 0.1 a second, energy recovers
\* by 10.0 a second up to 100.0
IdleExecute(st, d) ==
    [Calmed(st, 1, d) EXCEPT !.energy = Min(Full, @ + 100 * d)]

\* _execute of each class, as far as energy and alertness go
ExecuteOf(ty, st, d, env) ==
    CASE ty = "idle"   -> IdleExecute(st, d)
      [] ty = "patrol" -> IF env = "early" THEN st ELSE Consumed(st, 20, d)
      [] ty = "hunt"   ->
            IF env = "early" THEN st
            ELSE Consumed(IF env = "found" THEN Alerted(st, 50, d)
                                           ELSE Calmed(st, 100, d), 50, d)
      [] ty = "flee"   ->
            IF env = "early" THEN st
            ELSE Consumed(IF env = "found" THEN Alerted(st, 30, d)
                                           ELSE st, 80, d)
      [] ty = "guard"  ->
            IF env = "early" THEN st
            ELSE Consumed(IF env = "found" THEN Alerted(st, 40, d)
                                           ELSE Calmed(st, 50, d), 30, d)
      [] ty = "trade"  -> IF env = "early" THEN st ELSE Consumed(st, 15, d)

\* _execute of each class, as far as the memory goes.  Of goal_data only
\* the entry 'target_position' is kept.  The percept decides what the
\* geometry decides in the code: "early" is a return before anything is
\* written, "found" that the other entity is detected (for trade: that the
\* entity waits at its trade point), "clear" that it is not.
RememberOf(ty, st, env) ==
    LET m == st.memory
        Target(x) == [m EXCEPT !.goal_data = Put(@, "target_position", x)]
    IN  CASE ty = "idle"   -> m
          [] ty = "patrol" ->
                IF env = "early" THEN m
                ELSE [Target(WaypointX) EXCEPT !.current_target = NoTarget]
          [] ty = "hunt"   ->
                IF env = "early" THEN m
                ELSE IF env = "found"
                THEN [Target(OtherX) EXCEPT
                        !.last_seen_targets = Put(@, OtherId, OtherX),
                        !.last_seen_times = Put(@, OtherId, st.state_time),
                        !.current_target = OtherId]
                ELSE IF \E t \in Get(m.last_seen_times, OtherId) :
                            st.state_time - t < MemoryDuration
                THEN [[m EXCEPT !.current_target = OtherId]
                         EXCEPT !.goal_data =
                            {<<"target_position", x>> :
                                 x \in Get(m.last_seen_targets, OtherId)}
                            \cup {e \in @ : e[1] # "target_position"}]
                ELSE m
          [] ty = "flee"   ->
                IF env = "found" /\ position # OtherX
                THEN Target(IF position > OtherX
                            THEN position + FleeRange
                            ELSE position - FleeRange)
                ELSE m
          [] ty = "guard"  ->
                IF env = "early" THEN m
                ELSE IF env = "found" THEN Target(OtherX)
                ELSE IF position - GuardX > GuardRadius
                        \/ GuardX - position > GuardRadius
                THEN Target(GuardX)
                ELSE Target(position)
          [] ty = "trade"  ->
                IF env = "early" THEN m
                ELSE IF env = "found" THEN Target(position)
                ELSE Target(WaypointX)

\* a configuration that has the entry f
HasField(b, f) == f \in DOMAIN b

\* goal_data.get('current_waypoint', 0)
current_wp(st) ==
    IF Get(st.memory.goal_data, "current_waypoint") = {} THEN 0
    ELSE CHOOSE i \in Get(st.memory.goal_data, "current_waypoint") : TRUE

\* PatrolBehavior._execute for a configuration with 'waypoints', lines 86-112,
\* the list not empty and the index within it: the index moves on when the
\* entity is within arrival_tolerance, 10.0 by default, of the waypoint
PatrolExecute(b, st, d) ==
    LET target == b.waypoints[current_wp(st) + 1]
        gd == IF Abs(target - position) < 10 * PerSecond
              THEN Put(st.memory.goal_data, "current_waypoint",
                       (current_wp(st) + 1) % Len(b.waypoints))
              ELSE st.memory.goal_data
    IN  Consumed([st EXCEPT !.memory.current_target = NoTarget,
                            !.memory.goal_data =
                                Put(gd, "target_position", target)],
                 20, d)

\* TradeBehavior._execute for a configuration whose first route has no
\* point, lines 311-317: the route is counted on and nothing else is done
TradeSkipRoute(b, st) ==
    [st EXCEPT !.memory.goal_data =
        Put(Put(@, "current_route", 1 % Len(b.trade_routes)),
            "current_point", 0)]

\* waypoints[current_wp] of line 93 raises IndexError
ExecuteRaises(b, st) ==
    /\ b.enabled
    /\ b.type = "patrol"
    /\ HasField(b, "waypoints")
    /\ b.waypoints # <<>>
    /\ current_wp(st) \notin 0 .. (Len(b.waypoints) - 1)

\* AIBehavior.execute.  A patrol configured with 'waypoints' and a trade
\* configured with 'trade_routes' are computed from these lists and the
\* position of the entity; for the others the percept stands for the
\* geometry.
execute(b, st, d, env) ==
    IF ~b.enabled THEN st
    ELSE LET s1 == [st EXCEPT !.state_time = @ + d]
         IN  IF b.type = "patrol" /\ HasField(b, "waypoints")
             THEN IF b.waypoints = <<>> THEN s1
                  ELSE PatrolExecute(b, s1, d)
             ELSE IF b.type = "trade" /\ HasField(b, "trade_routes")
             THEN IF b.trade_routes = <<>> THEN s1
                  ELSE TradeSkipRoute(b, s1)
             ELSE [ExecuteOf(b.type, s1, d, env) EXCEPT
                      !.memory = RememberOf(b.type, s1, env)]

\* _sync_with_ai_component, what it does to the state: line 599 takes the
\* current goal from the component, and lines 614-622 raise alertness by
\* 10.0 for an aggression above 0.7 and lower it by 5.0 for one below 0.3.
sync_with_ai_component(st, comp) ==
    IF comp = NoComponent THEN st
    ELSE LET s1 == [st EXCEPT !.memory.current_goal = comp.current_goal]
         IN  IF comp.aggression_level > 7
             THEN [s1 EXCEPT !.alertness = Min(Full, @ + 10 * Tenth)]
             ELSE IF comp.aggression_level < 3
             THEN [s1 EXCEPT !.alertness = Max(0, @ - 5 * Tenth)]
             ELSE s1

\* _sync_with_ai_component, what it does to the component: lines 602-612
\* write copies of the memory and the current goal into it
synced_ai_component(st, comp) ==
    IF comp = NoComponent THEN comp
    ELSE LET m == sync_with_ai_component(st, comp).memory
         IN  [comp EXCEPT !.memory = m, !.current_goal = m.current_goal]

\* _load_ai_from_component, lines 646-663: behaviour, energy and alertness
\* by the type of the component
LoadedState(comp) ==
    CASE comp.ai_type = "aggressive" -> AIState("pirate_hunt", 80 * Tenth, 60 * Tenth)
      [] comp.ai_type = "defensive"  -> AIState("station_guard", 90 * Tenth, 30 * Tenth)
      [] comp.ai_type = "merchant"   -> AIState("trade_run", 70 * Tenth, 20 * Tenth)
      [] OTHER                       -> AIState("default_idle", Full, 0)

\* _load_ai_from_component: the memory comes from the 'memory' entry when
\* there is one (lines 634-641), the current goal from the component (644)
load_ai_from_component(comp) ==
    [LoadedState(comp) EXCEPT
        !.memory = [(IF comp.memory # NoMemory THEN comp.memory ELSE AIMemory)
                       EXCEPT !.current_goal = comp.current_goal]]

\* AISystem.update, lines 481-485: the loop over self.behaviors.values() from
\* position i on, with the best found so far (0 is None) and its priority
RECURSIVE BestFrom(_, _, _, _, _)
BestFrom(reg, i, best, best_priority, st) ==
    IF i > Len(reg) THEN best
    ELSE IF can_execute(reg[i], st) /\ reg[i].priority > best_priority
         THEN BestFrom(reg, i + 1, i, reg[i].priority, st)
         ELSE BestFrom(reg, i + 1, best, best_priority, st)

\* lines 478-479: best_behavior = None, best_priority = -1
Best(reg, st) == BestFrom(reg, 1, 0, NoPriority, st)

\* lines 490-492 without the reset of state_time
Enter_no_reset(st, b) ==
    [st EXCEPT !.behavior_name = b.name]

\* AISystem.update, lines 490-492: a change of behaviour restarts state_time
Enter(st, b) ==
    IF st.behavior_name # b.name
    THEN [st EXCEPT !.behavior_name = b.name, !.state_time = 0]
    ELSE st

\* AISystem.update without the second _sync_with_ai_component of line 497
Update_one_sync(reg, st, comp, d, env) ==
    LET st0 == IF st = NoState /\ comp # NoComponent
               THEN load_ai_from_component(comp) ELSE st
    IN  IF st0 = NoState
        THEN [state |-> NoState, best |-> NoBehavior, component |-> comp,
              raised |-> NoError]
        ELSE LET st1 == sync_with_ai_component(st0, comp)
                 c1  == synced_ai_component(st0, comp)
                 k   == Best(reg, st1)
             IN  IF k = 0
                 THEN [state |-> st1, best |-> NoBehavior, component |-> c1,
                       raised |-> NoError]
                 ELSE IF ExecuteRaises(reg[k], Enter(st1, reg[k]))
                 THEN [state |-> [Enter(st1, reg[k]) EXCEPT
                                     !.state_time = @ + d],
                       best  |-> reg[k].name,
                       component |-> c1,
                       raised |-> "IndexError"]
                 ELSE [state |-> execute(reg[k], Enter(st1, reg[k]), d, env),
                       best  |-> reg[k].name,
                       component |-> c1,
                       raised |-> NoError]

\* AISystem.update for the entity, with registry reg: the state it leaves
\* the component it leaves, the name it selected and what it raised.  An
\* exception of _execute ends the update where it is: the second
\* _sync_with_ai_component is not reached.
\* auto_assign_ai_from_components gives a state to
\* an entity that has a component and none; an entity without state is
\* passed over.
Update(reg, st, comp, d, env) ==
    LET st0 == IF st = NoState /\ comp # NoComponent
               THEN load_ai_from_component(comp) ELSE st
    IN  IF st0 = NoState
        THEN [state |-> NoState, best |-> NoBehavior, component |-> comp,
              raised |-> NoError]
        ELSE LET st1 == sync_with_ai_component(st0, comp)
                 c1  == synced_ai_component(st0, comp)
                 k   == Best(reg, st1)
             IN  IF k = 0
                 THEN [state |-> st1, best |-> NoBehavior, component |-> c1,
                       raised |-> NoError]
                 ELSE IF ExecuteRaises(reg[k], Enter(st1, reg[k]))
                 THEN [state |-> [Enter(st1, reg[k]) EXCEPT
                                     !.state_time = @ + d],
                       best  |-> reg[k].name,
                       component |-> c1,
                       raised |-> "IndexError"]
                 ELSE LET st2 == execute(reg[k], Enter(st1, reg[k]), d, env)
                      IN  [state |-> sync_with_ai_component(st2, c1),
                           best  |-> reg[k].name,
                           component |-> synced_ai_component(st2, c1),
                           raised |-> NoError]

\* AISystem.update(entities, dt).  (Bound: MaxUpdates.)
ai_update(d, env) ==
    /\ ai_updates < MaxUpdates
    /\ ai_updates' = ai_updates + 1
    /\ LET r == Update(behaviors, ai_state, ai_component, d, env)
       IN  /\ ai_state' = r.state
           /\ best_behavior' = r.best
           /\ ai_component' = r.component
           /\ raised' = r.raised
    /\ UNCHANGED <<sched, mv_vars, ai_clock, behaviors>>

\* _initialize_systems fills the registry before
\* _assign_behaviors_to_entities gives the entities their states
NoEntityYet == ai_state = NoState /\ ai_component = NoComponent

NextAI ==
    \/ \E n \in Names, ty \in Types, c \in Configs :
          NoEntityYet /\ add_behavior(n, ty, c.enabled, c.priority)
    \/ \E n \in Names, e \in EnergyInputs, a \in AlertnessInputs :
          assign_ai(n, e, a)
    \/ \E n \in Names, e \in EnergyInputs, a \in AlertnessInputs,
          g \in AggressionInputs : assign_ai_to_entity(n, e, a, g)
    \/ \E ty \in AiTypes, g \in AggressionInputs, cg \in GoalInputs :
          add_component(ty, g, cg)
    \/ \E d \in DtInputs, env \in Percepts : ai_update(d, env)

SpecAI == Init /\ [][NextAI]_vars

\* ---- the movement system: src/simple/movement_system.py ------------------
\* One entity e, moving on the x axis.  Positions and distances are counted
\* in twentieths of a unit, times in twentieths of a second, speeds and
\* velocities in units per second and accelerations in units per second
\* squared, so that position + velocity * dt is exact.

MaxMoveTime == 40     \* simulated time given to MovementSystem.update: 2.0 s

MoveTypes          == {"linear", "patrol", "wander", "seek"}
                                           \* of behavior_classes
Turns              == {0, 1}               \* random.uniform: 0 or a half turn
MoveDtInputs       == {1, PerSecond}       \* dt: one tick of 0.05 s, 1.0 s
PositionInputs     == {0, 98 * PerSecond}  \* where the entity is created
VelocityInputs     == {0, 300}             \* velocity=... of assign_behavior
AccelerationInputs == {0, 40}              \* acceleration=...
MaxSpeedInputs     == {100, 30}            \* max_speed=..., default 100.0
TargetInputs       == {WaypointX, OtherX}  \* arguments of set_target

\* a MovementBehavior made from a definition: the entries of its config
\* that its class reads, with the defaults of the class for the others
MovementBehavior(n, ty, en, sp, wps) ==
    [name |-> n, type |-> ty, enabled |-> en,
     max_speed |-> sp,                          \* linear: 'max_speed'
     speed |-> sp,                              \* patrol, seek: 'speed'
     arrival_tolerance |-> 5 * PerSecond,       \* patrol, default 5.0
     max_force |-> 150,                         \* seek: 'max_force'
     waypoints |-> wps]                         \* patrol: 'waypoints'

\* definitions of a configuration document: fast_linear and seek_target as
\* create_default_config writes them, the patrol between (0, 0) and (100, 0)
\* at speed 50, one behaviour that is switched off, and one definition whose
\* type is not in behavior_classes
FastLinear == MovementBehavior("fast_linear", "linear", TRUE, 100, <<>>)
Route      == MovementBehavior("patrol_route", "patrol", TRUE, 50,
                               <<0, WaypointX>>)
SeekTarget == MovementBehavior("seek_target", "seek", TRUE, 50, <<>>)
Parked     == MovementBehavior("parked", "linear", FALSE, 100, <<>>)
Teleport   == MovementBehavior("jump", "teleport", TRUE, 0, <<>>)

\* what open() and json.load() make of a configuration file: the file is
\* missing, it is not JSON, or it is a document with a list of definitions
MissingFile   == [file |-> "missing", behaviors |-> <<>>]
MalformedJson == [file |-> "malformed", behaviors |-> <<>>]
Document(defs) == [file |-> "json", behaviors |-> defs]

MoveDocuments ==
    {MissingFile, MalformedJson,
     Document(<<FastLinear, Teleport, Parked>>),
     Document(<<Teleport, Route>>), Document(<<SeekTarget>>)}

MoveNames == {"fast_linear", "patrol_route", "seek_target", "parked", "jump"}

\* MovementData(**kwargs)
MovementData(v, a, ms) ==
    [velocity |-> v, acceleration |-> a, max_speed |-> ms,
     target_position |-> None, path_points |-> <<>>,
     current_path_index |-> 0]


\* if magnitude > m: v = (v / magnitude) * m
Limit(v, m) == IF Abs(v) > m THEN Sign(v) * m ELSE v

\* x * dt for an x per second and a dt in twentieths of a second
Times(x, d) == (x * d) \div PerSecond

\* what one step of a behaviour leaves: the record, the position and the
\* target it steered to
Moved(md, pos, tgt) ==
    [movement |-> md, position |-> pos, target |-> tgt, raised |-> NoError]

\* a step that raises err: the record and the position as they are then
Failed(md, pos, err) ==
    [movement |-> md, position |-> pos, target |-> None, raised |-> err]

\* LinearMovement._update_movement: accelerate, limit to the max_speed of
\* the configuration, integrate
LinearMovement(b, md, pos, d) ==
    LET v == Limit(md.velocity + Times(md.acceleration, d), b.max_speed)
    IN  Moved([md EXCEPT !.velocity = v], pos + v * d, None)

\* PatrolMovement._update_movement with a step that stops at the waypoint
PatrolMovement_clamped(b, md, pos, d) ==
    IF b.waypoints = <<>> THEN Moved(md, pos, None)
    ELSE LET md1 == IF md.path_points = <<>>
                    THEN [md EXCEPT !.path_points = b.waypoints,
                                    !.current_path_index = 0]
                    ELSE md
             target == md1.path_points[md1.current_path_index + 1]
             dx == target - pos
         IN  IF Abs(dx) < b.arrival_tolerance
             THEN Moved([md1 EXCEPT !.current_path_index =
                                       (@ + 1) % Len(md1.path_points)],
                        pos, None)
             ELSE IF dx = 0 THEN Moved(md1, pos, None)
             ELSE Moved(md1, pos + Sign(dx) * Min(Abs(dx), b.speed * d),
                        None)

\* PatrolMovement._update_movement that takes a waypoint as reached only on
\* the waypoint itself
PatrolMovement_exact(b, md, pos, d) ==
    IF b.waypoints = <<>> THEN Moved(md, pos, None)
    ELSE LET md1 == IF md.path_points = <<>>
                    THEN [md EXCEPT !.path_points = b.waypoints,
                                    !.current_path_index = 0]
                    ELSE md
             target == md1.path_points[md1.current_path_index + 1]
             dx == target - pos
         IN  IF dx = 0
             THEN Moved([md1 EXCEPT !.current_path_index =
                                       (@ + 1) % Len(md1.path_points)],
                        pos, None)
             ELSE Moved(md1, pos + Sign(dx) * b.speed * d, None)

\* PatrolMovement._update_movement
PatrolMovement(b, md, pos, d) ==
    IF b.waypoints = <<>> THEN Moved(md, pos, None)
    ELSE LET md1 == IF md.path_points = <<>>
                    THEN [md EXCEPT !.path_points = b.waypoints,
                                    !.current_path_index = 0]
                    ELSE md
             target == md1.path_points[md1.current_path_index + 1]
             dx == target - pos
         IN  IF Abs(dx) < b.arrival_tolerance
             THEN Moved([md1 EXCEPT !.current_path_index =
                                       (@ + 1) % Len(md1.path_points)],
                        pos, None)
             ELSE IF dx = 0 THEN Moved(md1, pos, None)
             ELSE Moved(md1, pos + Sign(dx) * b.speed * d, None)

\* WanderMovement._update_movement, what it does to the entity: the
\* direction is counted in half turns, and turn is what random.uniform
\* gives when the timer has run out
WanderMovement(b, md, pos, d, turn) ==
    LET heading == IF b.next_direction_change - d <= 0
                   THEN (b.current_direction + turn) % 2
                   ELSE b.current_direction
    IN  Moved(md, pos + (IF heading = 0 THEN 1 ELSE -1) * b.speed * d, None)

\* WanderMovement._update_movement, what it does to the behaviour itself:
\* lines 176-182 write self.next_direction_change and
\* self.current_direction
Wandered(b, d, turn) ==
    IF b.next_direction_change - d <= 0
    THEN [b EXCEPT !.current_direction = (@ + turn) % 2,
                   !.next_direction_change = b.direction_change_interval]
    ELSE [b EXCEPT !.next_direction_change = @ - d]

\* SeekMovement._update_movement without the test of line 208: dx / distance
\* with distance 0
SeekMovement_unguarded(b, md, pos, d) ==
    IF md.target_position = None THEN Moved(md, pos, None)
    ELSE LET target == CHOOSE t \in md.target_position : TRUE
             dx == target - pos
             steer == Limit(Sign(dx) * b.speed - md.velocity, b.max_force)
             v == md.velocity + Times(steer, d)
         IN  IF dx = 0 THEN Failed(md, pos, "ZeroDivisionError")
             ELSE Moved([md EXCEPT !.acceleration = steer, !.velocity = v],
                        pos + v * d, md.target_position)

\* SeekMovement._update_movement: none of the configurations has a
\* 'target_position', so the target is that of the record
SeekMovement(b, md, pos, d) ==
    IF md.target_position = None THEN Moved(md, pos, None)
    ELSE LET target == CHOOSE t \in md.target_position : TRUE
             dx == target - pos
             steer == Limit(Sign(dx) * b.speed - md.velocity, b.max_force)
             v == md.velocity + Times(steer, d)
         IN  IF dx = 0 THEN Moved(md, pos, md.target_position)
             ELSE Moved([md EXCEPT !.acceleration = steer, !.velocity = v],
                        pos + v * d, md.target_position)

\* MovementBehavior.update
BehaviorUpdate(b, md, pos, d, turn) ==
    IF ~b.enabled THEN Moved(md, pos, None)
    ELSE CASE b.type = "linear" -> LinearMovement(b, md, pos, d)
           [] b.type = "patrol" -> PatrolMovement(b, md, pos, d)
           [] b.type = "wander" -> WanderMovement(b, md, pos, d, turn)
           [] b.type = "seek"   -> SeekMovement(b, md, pos, d)

\* the behaviour object after MovementBehavior.update
BehaviorAfter(b, d, turn) ==
    IF b.enabled /\ b.type = "wander" THEN Wandered(b, d, turn) ELSE b

\* behavior_name in self.behaviors
Known(reg, n) == \E i \in 1 .. Len(reg) : reg[i].name = n

\* self.behaviors[behavior_name]
Lookup(reg, n) == reg[CHOOSE i \in 1 .. Len(reg) : reg[i].name = n]

\* self.behaviors[behavior.name] = behavior: a new key goes to the end, an
\* existing key keeps its place and gets the new value
Registered(reg, b) ==
    IF Known(reg, b.name)
    THEN [i \in 1 .. Len(reg) |-> IF reg[i].name = b.name THEN b ELSE reg[i]]
    ELSE Append(reg, b)

\* the loop of load_config that gives up at the first definition whose type
\* is no key of behavior_classes
RECURSIVE LoadFrom_abort(_, _, _, _)
LoadFrom_abort(reg, defs, i, classes) ==
    IF i > Len(defs) THEN reg
    ELSE IF defs[i].type \in classes
         THEN LoadFrom_abort(Registered(reg, defs[i]), defs, i + 1, classes)
         ELSE reg

\* the loop of load_config over the definitions from position i on: a
\* definition whose type is no key of behavior_classes is passed over
RECURSIVE LoadFrom(_, _, _, _)
LoadFrom(reg, defs, i, classes) ==
    IF i > Len(defs) THEN reg
    ELSE LoadFrom(IF defs[i].type \in classes
                  THEN Registered(reg, defs[i]) ELSE reg,
                  defs, i + 1, classes)

\* load_config: FileNotFoundError and json.JSONDecodeError are caught and
\* leave the registry as it is
Loaded(reg, doc, classes) ==
    IF doc.file # "json" THEN reg
    ELSE LoadFrom(reg, doc.behaviors, 1, classes)

\* Entity(type, (x, 0.0)): the entity is created at x
create_entity(x) ==
    /\ mv_updates = 0
    /\ ai_updates = 0
    /\ position' = x
    /\ origin' = x
    /\ UNCHANGED <<sched, ai_vars, watch, movement_behaviors, entity_behaviors,
                   entity_movements, used_target, mv_updates, mv_time>>

\* MovementSystem.load_config
mv_load_config(doc) ==
    /\ mv_updates = 0
    /\ movement_behaviors' = Loaded(movement_behaviors, doc, MoveTypes)
    /\ UNCHANGED <<sched, ai_vars, watch, position, entity_behaviors,
                   entity_movements, used_target, mv_updates, mv_time, origin>>

\* MovementSystem.assign_behavior(e, n, velocity=(v, 0), acceleration=(a, 0),
\* max_speed=ms)
assign_behavior(n, v, a, ms) ==
    /\ mv_updates = 0
    /\ IF ~Known(movement_behaviors, n)
       THEN UNCHANGED <<entity_behaviors, entity_movements>>
       ELSE /\ entity_behaviors' = n
            /\ entity_movements' = MovementData(v, a, ms)
    /\ UNCHANGED <<sched, ai_vars, watch, position, movement_behaviors,
                   used_target, mv_updates, mv_time, origin>>

\* MovementSystem.set_target
set_target(t) ==
    /\ mv_updates = 0
    /\ entity_movements' =
          IF entity_movements # NoMovement
          THEN [entity_movements EXCEPT !.target_position = Some(t)]
          ELSE entity_movements
    /\ UNCHANGED <<sched, ai_vars, watch, position, movement_behaviors,
                   entity_behaviors, used_target, mv_updates, mv_time, origin>>

\* MovementSystem.update for the entity, lines 299-305
MovementUpdate(reg, n, md, pos, d, turn) ==
    IF n # NoBehavior /\ Known(reg, n) /\ md # NoMovement
    THEN BehaviorUpdate(Lookup(reg, n), md, pos, d, turn)
    ELSE Moved(md, pos, None)

\* self.behaviors after MovementSystem.update for the entity
RegistryAfter(reg, n, md, d, turn) ==
    IF n # NoBehavior /\ Known(reg, n) /\ md # NoMovement
    THEN Registered(reg, BehaviorAfter(Lookup(reg, n), d, turn))
    ELSE reg

\* MovementSystem.update(entities, dt).  (Bound: MaxMoveTime.)
movement_update(d) ==
    /\ mv_time + d <= MaxMoveTime
    /\ mv_updates' = mv_updates + 1
    /\ mv_time' = mv_time + d
    /\ \E turn \in Turns :
          LET r == MovementUpdate(movement_behaviors, entity_behaviors,
                                  entity_movements, position, d, turn)
          IN  /\ entity_movements' = r.movement
              /\ position' = r.position
              /\ used_target' = r.target
              /\ raised' = r.raised
              /\ movement_behaviors' =
                    RegistryAfter(movement_behaviors, entity_behaviors,
                                  entity_movements, d, turn)
    /\ UNCHANGED <<sched, ai_vars, ai_clock, entity_behaviors, origin>>

\* a dt for which velocity + steer * dt is a whole number: whole seconds
\* when the entity seeks
Whole(d) ==
    (Known(movement_behaviors, entity_behaviors)
        /\ Lookup(movement_behaviors, entity_behaviors).type = "seek")
    => d % PerSecond = 0

NextMove ==
    \/ \E x \in PositionInputs : create_entity(x)
    \/ \E doc \in MoveDocuments : mv_load_config(doc)
    \/ \E n \in MoveNames, v \in VelocityInputs, a \in AccelerationInputs,
          ms \in MaxSpeedInputs : assign_behavior(n, v, a, ms)
    \/ \E t \in TargetInputs : set_target(t)
    \/ \E d \in MoveDtInputs : Whole(d) /\ movement_update(d)

SpecMove == Init /\ [][NextMove]_vars

\* ---- the game manager: src/simple/game_manager.py ------------------------
\* GameManager owns a MovementSystem and an AISystem, loads a configuration
\* document into each, and registers _update_game_logic with the scheduler.
\* dt of a logic advance is counted in seconds, as in the decision system.

\* definitions of a decision configuration: three of those that
\* create_default_config writes, and one whose type is not in
\* behavior_classes
DefaultIdle ==
    [name |-> "default_idle", type |-> "idle", enabled |-> TRUE,
     priority |-> DefaultPriority]
SecurityPatrol ==
    [name |-> "security_patrol", type |-> "patrol", enabled |-> TRUE,
     priority |-> 10]
StationGuard ==
    [name |-> "station_guard", type |-> "guard", enabled |-> TRUE,
     priority |-> 15]
Berserk ==
    [name |-> "berserk", type |-> "berserk", enabled |-> TRUE,
     priority |-> 40]

AiDocuments ==
    {MissingFile, MalformedJson,
     Document(<<DefaultIdle, Berserk>>),
     Document(<<Berserk, SecurityPatrol>>), Document(<<StationGuard>>)}

\* AISystem.load_config
ai_load_config(doc) ==
    /\ ai_updates = 0
    /\ behaviors' = Loaded(behaviors, doc, Types)
    /\ UNCHANGED <<sched, mv_vars, watch, ai_state, ai_component, best_behavior,
                   ai_updates>>

\* _sync_ai_with_movement that sets a target only where none is set
sync_ai_with_movement_once(st, md) ==
    LET target == IF st = NoState THEN None
                  ELSE Get(st.memory.goal_data, "target_position")
    IN  IF target # None /\ md # NoMovement /\ md.target_position = None
        THEN [md EXCEPT !.target_position = target]
        ELSE md

\* _sync_ai_with_movement that also stops the entity it retargets
sync_ai_with_movement_halts(st, md) ==
    LET target == IF st = NoState THEN None
                  ELSE Get(st.memory.goal_data, "target_position")
    IN  IF target # None /\ md # NoMovement
        THEN [md EXCEPT !.target_position = target, !.velocity = 0]
        ELSE md

\* GameManager._sync_ai_with_movement with MovementSystem.set_target: the
\* record md after it, for decision state st
sync_ai_with_movement(st, md) ==
    LET target == IF st = NoState THEN None
                  ELSE Get(st.memory.goal_data, "target_position")
    IN  IF target # None /\ md # NoMovement
        THEN [md EXCEPT !.target_position = target]
        ELSE md

\* GameManager._update_game_logic(dt): the decision update, the movement
\* update, then the synchronization.  (Bound: MaxUpdates.)
update_game_logic(d, env) ==
    /\ ai_updates < MaxUpdates
    /\ ai_updates' = ai_updates + 1
    /\ LET r == Update(behaviors, ai_state, ai_component, d, env)
       IN  /\ ai_state' = r.state
           /\ best_behavior' = r.best
           /\ ai_component' = r.component
           /\ IF r.raised # NoError
              THEN \* the exception leaves _update_game_logic at line 182
                   /\ raised' = r.raised
                   /\ UNCHANGED mv_vars
              ELSE \E turn \in Turns :
                   LET m == MovementUpdate(movement_behaviors,
                                           entity_behaviors, entity_movements,
                                           position, d * PerSecond, turn)
                   IN  /\ position' = m.position
                       /\ used_target' = m.target
                       /\ raised' = m.raised
                       /\ movement_behaviors' =
                             RegistryAfter(movement_behaviors,
                                           entity_behaviors, entity_movements,
                                           d * PerSecond, turn)
                       /\ entity_movements' =
                             IF m.raised # NoError THEN m.movement
                             ELSE sync_ai_with_movement(r.state, m.movement)
                       /\ mv_updates' = mv_updates + 1
                       /\ mv_time' = mv_time + d * PerSecond
                       /\ UNCHANGED <<entity_behaviors, origin>>
    /\ UNCHANGED <<sched, ai_clock, behaviors>>

\* The manager assigns with the defaults of both systems: no kinematics
\* arguments, energy 100.0, alertness 0.0, aggression_level 0.5.
NextGame ==
    \/ \E doc \in AiDocuments : ai_load_config(doc)
    \/ \E doc \in MoveDocuments : mv_load_config(doc)
    \/ \E n \in MoveNames : assign_behavior(n, 0, 0, 100)
    \/ assign_ai_to_entity("default_idle", Full, 0, 5)
    \/ \E d \in DtInputs, env \in Percepts : update_game_logic(d, env)

SpecGame == Init /\ [][NextGame]_vars

\* ---- the two systems on degenerate configurations -----------------------
\* Behaviours whose lists are empty, whose tolerance is zero or that keep
\* state of their own, an entity that stands on its target, and a component
\* that comes with the memory a previous run wrote into it.

\* decision behaviours configured with their lists
EmptyPatrol ==
    [name |-> "empty_patrol", type |-> "patrol", enabled |-> TRUE,
     priority |-> 10, waypoints |-> <<>>]
LongPatrol ==
    [name |-> "long_patrol", type |-> "patrol", enabled |-> TRUE,
     priority |-> 10, waypoints |-> <<0, WaypointX>>]
EmptyTrade ==
    [name |-> "empty_trade", type |-> "trade", enabled |-> TRUE,
     priority |-> 8, trade_routes |-> <<>>]
HollowTrade ==
    [name |-> "hollow_trade", type |-> "trade", enabled |-> TRUE,
     priority |-> 8, trade_routes |-> << <<>> >>]

EdgeAiDocuments ==
    {Document(<<EmptyPatrol>>), Document(<<EmptyTrade>>),
     Document(<<HollowTrade>>), Document(<<LongPatrol>>)}

\* movement behaviours: a patrol without waypoints, a patrol with
\* arrival_tolerance 0, and the wanderer, whose max_direction_change is a
\* half turn and whose timer and direction are those of its __init__
EmptyRoute == MovementBehavior("empty_route", "patrol", TRUE, 50, <<>>)
ExactRoute ==
    [MovementBehavior("exact_route", "patrol", TRUE, 50, <<0, WaypointX>>)
        EXCEPT !.arrival_tolerance = 0]
RandomWander ==
    [name |-> "random_wander", type |-> "wander", enabled |-> TRUE,
     speed |-> 25, direction_change_interval |-> 3 * PerSecond,
     next_direction_change |-> 0, current_direction |-> 0]

EdgeMoveDocuments ==
    {Document(<<EmptyRoute, SeekTarget>>),
     Document(<<ExactRoute, RandomWander>>)}

EdgeMoveNames == {"empty_route", "exact_route", "random_wander", "seek_target"}
EdgePositions == {0, OtherX}
WaypointInputs == {1, 2}        \* goal_data['current_waypoint'] of a component

\* Entity.add_component('ai', ...) with a component as
\* _sync_with_ai_component left it in an earlier run: its 'memory' entry
\* holds a goal_data with 'current_waypoint'
restore_component(wp) ==
    /\ ai_updates = 0
    /\ ai_state = NoState
    /\ ai_component' =
          [AIComponent("basic", 5, NoGoal) EXCEPT
              !.memory = [AIMemory EXCEPT
                             !.goal_data = {<<"current_waypoint", wp>>}]]
    /\ UNCHANGED <<sched, mv_vars, watch, behaviors, ai_state, best_behavior,
                   ai_updates>>

NextEdge ==
    \/ \E x \in EdgePositions : create_entity(x)
    \/ \E doc \in EdgeAiDocuments : ai_load_config(doc)
    \/ \E doc \in EdgeMoveDocuments : mv_load_config(doc)
    \/ \E n \in EdgeMoveNames : assign_behavior(n, 0, 0, 100)
    \/ set_target(OtherX)
    \/ assign_ai_to_entity("default_idle", Full, 0, 5)
    \/ \E wp \in WaypointInputs : restore_component(wp)
    \/ update_game_logic(1, "found")

SpecEdge == Init /\ [][NextEdge]_vars

\* ---- a hunter that tires and rests ------------------------------------
\* One entity with the registry {default_idle, pirate_hunt}: the hunt runs
\* while the energy is above 30.0 and costs 5.0 a second, idle gives 10.0 a
\* second back, so the entity goes from hunt to idle and back.  ai_time is
\* the simulated time that the updates have added up, seen_at the ai_time of
\* the update in which the hunt last detected the other entity.

MaxHuntUpdates == 6                  \* calls of AISystem.update
HuntEnergy     == 35 * Tenth         \* energy=35.0 of assign_ai_to_entity

\* a hunt definition that leaves detection_range, memory_duration and
\* energy_cost to the defaults of the class
PirateHunt ==
    [name |-> "pirate_hunt", type |-> "hunt", enabled |-> TRUE,
     priority |-> 20]

HuntDocument == Document(<<DefaultIdle, PirateHunt>>)

\* the entity has a position: the other entity is in detection range or not
Sightings == {"found", "clear"}

\* AISystem.update(entities, dt), with the simulated time kept beside it.
\* (Bound: MaxHuntUpdates.)
ai_update_clocked(d, env) ==
    /\ ai_updates < MaxHuntUpdates
    /\ ai_updates' = ai_updates + 1
    /\ LET r == Update(behaviors, ai_state, ai_component, d, env)
       IN  /\ ai_state' = r.state
           /\ best_behavior' = r.best
           /\ ai_component' = r.component
           /\ raised' = r.raised
           /\ seen_at' = IF r.best = "pirate_hunt" /\ env = "found"
                         THEN ai_time + d ELSE seen_at
    /\ ai_time' = ai_time + d
    /\ UNCHANGED <<sched, mv_vars, behaviors>>

NextHunt ==
    \/ ai_load_config(HuntDocument)
    \/ \E e \in {HuntEnergy, Full} :
          assign_ai_to_entity("default_idle", e, 0, 5)
    \/ \E d \in DtInputs, env \in Sightings : ai_update_clocked(d, env)

SpecHunt == Init /\ [][NextHunt]_vars

\* ---- a patrol that is updated for ever ----------------------------------
\* The game loop calls MovementSystem.update in every logic tick for as long
\* as it runs.  The entity is created, the routes are loaded and one is
\* assigned before the first update; from then on only updates happen: the
\* counter of updates then goes between 1 and 2 and the time is not counted.

\* routes of the default speed and tolerance classes: one that is walked,
\* one with a single waypoint, and one whose entity has speed 0
SlowRoute  == MovementBehavior("slow_route", "patrol", TRUE, 30,
                               <<0, WaypointX>>)
SinglePost == MovementBehavior("single_post", "patrol", TRUE, 30,
                               <<WaypointX>>)
StillRoute == MovementBehavior("still_route", "patrol", TRUE, 0,
                               <<0, WaypointX>>)

PatrolDocuments ==
    {Document(<<Route, SlowRoute>>), Document(<<SinglePost, StillRoute>>)}
PatrolNames == {"patrol_route", "slow_route", "single_post", "still_route"}
PatrolDts   == {1, 2}               \* dt: 0.05 s, 0.1 s

\* MovementSystem.update(entities, dt), counted as 1, 2, 1, 2, ...
movement_update_forever(d) ==
    /\ mv_updates' = IF mv_updates = 1 THEN 2 ELSE 1
    /\ UNCHANGED mv_time
    /\ \E turn \in Turns :
          LET r == MovementUpdate(movement_behaviors, entity_behaviors,
                                  entity_movements, position, d, turn)
          IN  /\ entity_movements' = r.movement
              /\ position' = r.position
              /\ used_target' = r.target
              /\ raised' = r.raised
              /\ movement_behaviors' =
                    RegistryAfter(movement_behaviors, entity_behaviors,
                                  entity_movements, d, turn)
    /\ UNCHANGED <<sched, ai_vars, ai_clock, entity_behaviors, origin>>

NextPatrol ==
    \/ \E x \in PositionInputs : create_entity(x)
    \/ \E doc \in PatrolDocuments : mv_load_config(doc)
    \/ \E n \in PatrolNames : assign_behavior(n, 0, 0, 100)
    \/ \E d \in PatrolDts : movement_update_forever(d)

\* the loop does not stop calling update
PatrolFairness == WF_vars(\E d \in PatrolDts : movement_update_forever(d))

SpecPatrol == Init /\ [][NextPatrol]_vars /\ PatrolFairness

\* ---- vocabulary of the properties ----------------------------------------

\* positions inside a logic or presentation advance
InCallback == {"in_cb", "except"}
InAdvance  == {"lock", "in_cb", "except", "rd_tick", "wr_tick", "wr_gt"}

\* thread a takes this step
Acts(a) == pc'[a] # pc[a] \/ idx'[a] # idx[a]

\* the documented edges of the state machine
Edges == { <<"Stopped", "Running">>,
           <<"Running", "RunningPaused">>,
           <<"RunningPaused", "Running">>,
           <<"Running", "Stopped">>,
           <<"RunningPaused", "Stopped">> }

\* ---- C1 ------------------------------------------------------------------
\* C1: every logic advance, by the logic thread or by step(), passes the
\* nominal tick interval as dt to the update callbacks and adds exactly that
\* to the simulation time, whatever the speed multiplier.
C1_NominalDt ==
    \A a \in Updaters : pc[a] \in InAdvance => dt[a] = TickInterval

\* ---- C2 ------------------------------------------------------------------
\* C2: a call of step() made while Running and Paused performs exactly one
\* logic advance: it invokes every registered update callback once, it
\* increases tick by exactly 1 and game_time by one dt, and it changes them
\* at no other point.
C2_StepAdvancesOnce ==
    [][ (ctl_pre = "RunningPaused" /\ Acts(Ctl)) =>
          /\ (pc[Ctl] \in InCallback /\ pc'[Ctl] = "rd_tick")
                => called[Ctl] = update_systems
          /\ tick' = IF pc[Ctl] = "wr_tick" THEN tick + 1 ELSE tick
          /\ game_time' = IF pc[Ctl] = "wr_gt" THEN game_time + dt[Ctl]
                          ELSE game_time ]_vars

\* ---- C3 ------------------------------------------------------------------
\* C3: step() changes neither flag nor the speed multiplier, and after pause()
\* and n calls of step() with no resume() the tick counter has grown by
\* exactly n and the scheduler is still Paused.
C3_StepKeepsPause ==
    [][ (step \/ (pc[Ctl] \in InAdvance /\ Acts(Ctl))) =>
          /\ UNCHANGED <<is_running, is_paused, speed_multiplier>>
          /\ (pc'[Ctl] = "idle" /\ expect_tick' # -1)
                => (tick' = expect_tick' /\ State' = "RunningPaused") ]_vars

\* ---- C4 ------------------------------------------------------------------
\* C4: between the return of pause() and the next resume() the logic thread
\* performs no part of a logic advance: it calls no update callback and
\* changes neither tick nor game_time.
C4_PauseSuspendsLogic ==
    [][ (is_paused /\ is_paused') =>
          \A t \in Logic : ~(pc[t] \in InAdvance /\ Acts(t)) ]_vars

\* ---- C5 ------------------------------------------------------------------
\* C5: (is_running, is_paused) moves only along the documented edges: start()
\* from Stopped gives Running and not Paused, pause() and resume() switch
\* between Running and Running-and-Paused, stop() from either gives Stopped,
\* and step(), set_speed() and the threads move it nowhere.
C5_StateMachine ==
    [][ /\ State' # State => <<State, State'>> \in Edges
        /\ (start /\ State = "Stopped") => State' = "Running"
        /\ (pause /\ State = "Running") => State' = "RunningPaused"
        /\ (resume /\ State = "RunningPaused") => State' = "Running"
        /\ stop => State' = "Stopped"
        /\ (State' # State) => (start \/ pause \/ resume \/ stop) ]_vars

\* stop() has been called on a scheduler that was started and then paused
C5_Witness ==
    /\ pc[Ctl] = "join_game"
    /\ ctl_pre = "RunningPaused"
    /\ State = "Stopped"

\* ---- C6 ------------------------------------------------------------------
\* C6: when stop() has returned, no update or presentation callback is
\* executing and none will be invoked before the next start().
C6_StopQuiesces ==
    (~is_running /\ pc[Ctl] = "idle") =>
        \A t \in Logic \cup Render : pc[t] \notin {"lock", "in_cb", "except"}

\* ---- C7 ------------------------------------------------------------------
\* C7: stop() called on a Stopped scheduler leaves it Stopped and changes
\* neither tick, game_time, the speed multiplier nor the callback lists.
C7_StopIdempotent ==
    [][ \/ (stop /\ State = "Stopped")
        \/ ((stop_join_game \/ stop_join_render) /\ ctl_pre = "Stopped")
        => /\ State' = "Stopped"
           /\ UNCHANGED <<is_running, is_paused, tick, game_time,
                          speed_multiplier, update_systems,
                          render_systems,
                          wall, ai_vars, mv_vars>> ]_vars

\* a second stop() of a scheduler that ran, advanced and was stopped
C7_Witness ==
    /\ pc[Ctl] = "join_render"
    /\ ctl_pre = "Stopped"
    /\ game_thread # NoThread
    /\ tick > 0

C9_NoOverlap ==
    ~ \E r \in Render, a \in Updaters :
          pc[r] \in InCallback /\ pc[a] \in InCallback

\* a logic advance is between its two callbacks while the presentation thread
\* waits for the lock
C9_Witness ==
    \E r \in Render, a \in Updaters :
        /\ pc[r] = "lock"
        /\ pc[a] \in InCallback
        /\ idx[a] = 1
        /\ Len(update_systems) = 2

\* ---- C10 -----------------------------------------------------------------
\* C10: after a callback has raised, the callbacks registered after it are
\* still invoked in the same advance, the advance completes (a logic advance
\* goes on to increment tick and game_time) and the thread stays in its loop.
C10_FaultsContained ==
    [][ \A a \in Actors :
          /\ (pc[a] = "except" /\ Acts(a)) =>
                LET list == IF a \in Render THEN render_systems
                                           ELSE update_systems
                IN  IF idx[a] < Len(list)
                    THEN /\ pc'[a] = "in_cb"
                         /\ called'[a] = Append(called[a], list[idx[a] + 1])
                    ELSE /\ called[a] = list
                         /\ pc'[a] = IF a \in Render THEN "loop" ELSE "rd_tick"
          /\ (pc[a] = "rd_tick" /\ Acts(a)) => pc'[a] = "wr_tick"
          /\ (pc[a] = "wr_tick" /\ Acts(a)) =>
                (pc'[a] = "wr_gt" /\ tick' = rd[a] + 1)
          /\ (pc[a] = "wr_gt" /\ Acts(a)) =>
                (pc'[a] = Home(a) /\ game_time' = rd[a] + dt[a]) ]_vars

\* the first of two update callbacks has raised in the logic thread
C10_Witness ==
    \E t \in Logic :
        /\ pc[t] = "except"
        /\ idx[t] = 1
        /\ Len(update_systems) = 2

\* ---- C11 -----------------------------------------------------------------
\* C11: set_speed(m) stores 0.1 when m is below 0.1, 10.0 when m is above
\* 10.0 and m itself otherwise, and whatever the scheduler does the speed
\* multiplier stays within [0.1, 10.0].
C11_SpeedClamped ==
    [][ /\ \A m \in SpeedInputs :
              set_speed(m) =>
                  speed_multiplier' = IF m < MinSpeed THEN MinSpeed
                                      ELSE IF m > MaxSpeed THEN MaxSpeed
                                      ELSE m
        /\ MinSpeed <= speed_multiplier'
        /\ speed_multiplier' <= MaxSpeed ]_vars

\* the scheduler has run at the upper limit, to which set_speed(15.0) clamped
C11_Witness ==
    /\ speed_multiplier = MaxSpeed
    /\ is_running
    /\ game_time >= TickInterval * (MaxSpeed \div SpeedScale)

\* ---- C12 -----------------------------------------------------------------
\* C12: at a constant speed multiplier m the simulated seconds per wall
\* second equal m: what an advance of the logic thread adds to game_time is m
\* times the wall time since the previous advance, to within one unit of the
\* clock.
C12_CatchUpLaw ==
    [][ \A t \in Logic :
          (game_time_write(t) /\ rd[t] = game_time) =>
              LET sim  == SpeedScale * (game_time' - game_time)
                  wall_m == speed_multiplier * (now - last_tick_time)
              IN  /\ sim - wall_m <= speed_multiplier
                  /\ wall_m - sim <= speed_multiplier ]_vars

C14_StepStoppedNoOp ==
    [][ (step /\ ~is_running) => UNCHANGED vars ]_vars

\* a scheduler that has run with a callback registered and is Stopped again,
\* its threads finished: step() can be called here
C14_Witness ==
    /\ ~is_running
    /\ pc[Ctl] = "idle"
    /\ tick > 0
    /\ update_systems # <<>>
    /\ \A t \in Logic \cup Render : ~Alive(t)

\* ---- C15 -----------------------------------------------------------------
\* C15: tick and game_time never decrease, and they change only in the steps
\* of a logic advance that write them.
C15_ClockMonotonic ==
    [][ /\ tick' >= tick
        /\ game_time' >= game_time
        /\ tick' # tick =>
               \E a \in Updaters : pc[a] = "wr_tick" /\ pc'[a] = "wr_gt"
        /\ game_time' # game_time =>
               \E a \in Updaters : pc[a] = "wr_gt" /\ pc'[a] = Home(a) ]_vars

\* ---- vocabulary of the decision claims ----------------------------------

\* the state on which an update works: the entity's state, or the one
\* loaded from its component when it has none
Current ==
    IF ai_state = NoState /\ ai_component # NoComponent
    THEN load_ai_from_component(ai_component) ELSE ai_state

\* the state the eligibility predicates are evaluated on
Seen == sync_with_ai_component(Current, ai_component)

\* positions of the enabled behaviours whose eligibility predicate holds
Eligible ==
    IF Current = NoState THEN {}
    ELSE {i \in 1 .. Len(behaviors) :
              behaviors[i].enabled /\ CanExecuteOf(behaviors[i].type, Seen)}

\* the first registered of the eligible behaviours of highest priority
TopFirst ==
    CHOOSE i \in Eligible :
        \A j \in Eligible :
            /\ behaviors[j].priority <= behaviors[i].priority
            /\ behaviors[j].priority = behaviors[i].priority => i <= j

IsEnabled(b) == b.enabled

\* ---- C16 -----------------------------------------------------------------
\* C16: an update selects, among the enabled eligible behaviours, the one of
\* highest priority, and among several of highest priority the one
\* registered first.
C16_HighestPriorityFirst ==
    [][ \A d \in DtInputs, env \in Percepts :
          (ai_update(d, env) /\ Eligible # {}) =>
              best_behavior' = behaviors[TopFirst].name ]_vars

\* ---- C17 -----------------------------------------------------------------
\* C17: when some enabled behaviour is eligible, an update selects and
\* executes one behaviour, and that one is eligible, whatever the priorities
\* are (zero and negative ones included).
C17_OneEligibleSelected ==
    [][ \A d \in DtInputs, env \in Percepts :
          (ai_update(d, env) /\ Eligible # {}) =>
              \E i \in Eligible :
                  /\ best_behavior' = behaviors[i].name
                  /\ ai_state'.behavior_name = behaviors[i].name
                  /\ ai_state'.state_time >= d ]_vars

C19_DisabledIgnored ==
    [][ \A d \in DtInputs, env \in Percepts :
          ai_update(d, env) =>
              LET r == Update(SelectSeq(behaviors, IsEnabled), ai_state,
                              ai_component, d, env)
              IN  /\ ai_state' = r.state
                  /\ best_behavior' = r.best
                  /\ best_behavior' # NoBehavior =>
                         behaviors[KeyIndex(best_behavior')].enabled ]_vars

\* an update has selected an enabled behaviour past a disabled one that is
\* always eligible and has a higher priority
C19_Witness ==
    /\ ai_updates > 0
    /\ \E i, j \in 1 .. Len(behaviors) :
          /\ ~behaviors[i].enabled
          /\ behaviors[i].type = "idle"
          /\ behaviors[j].enabled
          /\ behaviors[j].priority < behaviors[i].priority
          /\ best_behavior = behaviors[j].name

\* ---- C20 -----------------------------------------------------------------
\* C20: an update that selects a behaviour makes its name the current one
\* and, exactly when that name differs from the current one, restarts
\* state_time at 0 before the behaviour executes (which adds dt); an update
\* that selects none leaves both as they are.
C20_StateTimeReset ==
    [][ \A d \in DtInputs, env \in Percepts :
          (ai_update(d, env) /\ Current # NoState) =>
              IF best_behavior' # NoBehavior
              THEN /\ ai_state'.behavior_name = best_behavior'
                   /\ ai_state'.state_time =
                         (IF best_behavior' # Current.behavior_name
                          THEN 0 ELSE Current.state_time) + d
              ELSE /\ ai_state'.behavior_name = Current.behavior_name
                   /\ ai_state'.state_time = Current.state_time ]_vars

\* idle (priority 0) and a trade behaviour (priority 10) named patrol: at
\* energy 25.0 the first update ran idle, the second one switched to the
\* other with dt = 1 and state_time restarted
C20_Witness ==
    /\ behaviors =
          << [name |-> "idle", type |-> "idle", enabled |-> TRUE,
              priority |-> DefaultPriority],
             [name |-> "patrol", type |-> "trade", enabled |-> TRUE,
              priority |-> 10] >>
    /\ ai_updates = 2
    /\ ai_state # NoState
    /\ ai_state.behavior_name = "patrol"
    /\ best_behavior = "patrol"
    /\ ai_state.state_time = 1
    /\ ai_state.energy \in {335, 435}

\* ---- C21 -----------------------------------------------------------------
\* C21: an update in which no enabled behaviour is eligible for the entity
\* leaves its decision state (behaviour name, state_time, energy, alertness)
\* as it was, whatever the aggression level of its component.
C21_NoEligibleNoChange ==
    [][ \A d \in DtInputs, env \in Percepts :
          (ai_update(d, env) /\ ai_state # NoState /\ Eligible = {}) =>
              ai_state' = ai_state ]_vars

\* ---- C24 -----------------------------------------------------------------
\* C24: after every decision update of an entity that has a decision state
\* and a decision component, the memory record of the component equals the
\* runtime memory (last-seen positions and times, current target, current
\* goal, goal data, blackboard) and the component's current_goal equals the
\* current goal of the runtime memory.
C24_MemoryMirrored ==
    (ai_updates > 0 /\ ai_state # NoState /\ ai_component # NoComponent) =>
        /\ ai_component.memory = ai_state.memory
        /\ ai_component.current_goal = ai_state.memory.current_goal

\* an entity whose component came with the goal "explore" has hunted: the
\* second update found the other entity and wrote it into the memory
C24_Witness ==
    /\ ai_updates = 2
    /\ ai_state # NoState
    /\ ai_component # NoComponent
    /\ best_behavior # NoBehavior
    /\ ai_state.memory.current_goal = "explore"
    /\ ai_state.memory.current_target = OtherId
    /\ ai_state.memory.last_seen_times = {<<OtherId, 2>>}
    /\ Get(ai_state.memory.goal_data, "target_position") = Some(OtherX)
    /\ ai_component.memory = ai_state.memory

\* ---- C25 -----------------------------------------------------------------
\* C25: building a runtime state from a decision component
\* (_load_ai_from_component) and mirroring that state back into the component
\* (_sync_with_ai_component) gives a component identical to the original,
\* also for a component that has no memory entry yet.
C25_RoundTrip ==
    ai_component # NoComponent =>
        synced_ai_component(load_ai_from_component(ai_component),
                            ai_component) = ai_component

\* ---- vocabulary of the movement claims -----------------------------------

\* the behaviour the movement update looks up for the entity
Assigned == Lookup(movement_behaviors, entity_behaviors)

\* the movement update reaches the integration step of a behaviour of type ty
Runs(ty) ==
    /\ entity_movements # NoMovement
    /\ Known(movement_behaviors, entity_behaviors)
    /\ Assigned.enabled
    /\ Assigned.type = ty

\* the waypoint a patrolling entity heads for, and its index
CurrentIndex ==
    IF entity_movements.path_points = <<>> THEN 0
    ELSE entity_movements.current_path_index

CurrentWaypoint == Assigned.waypoints[CurrentIndex + 1]

\* ---- C26 -----------------------------------------------------------------
\* C26: a decision update leaves the decision state of an entity unchanged
\* when the behaviour name assigned to the entity is not in the registry
\* (here for an entity without a component).
C26_UnknownNameNoOp ==
    [][ \A d \in DtInputs, env \in Percepts :
          (ai_update(d, env) /\ ai_state # NoState
             /\ ai_component = NoComponent
             /\ KeyIndex(ai_state.behavior_name) = 0) =>
              ai_state' = ai_state ]_vars

\* ---- C27 -----------------------------------------------------------------
\* C27: assign_behavior creates the kinematics record of the entity only if
\* it has none: after the call a record exists, and a record that existed
\* before the call is kept as it was.
C27_AssignKeepsRecord ==
    [][ \A n \in MoveNames, v \in VelocityInputs, a \in AccelerationInputs,
           ms \in MaxSpeedInputs :
          assign_behavior(n, v, a, ms) =>
              /\ entity_movements' # NoMovement
              /\ entity_movements # NoMovement =>
                    entity_movements' = entity_movements ]_vars

\* ---- C29 -----------------------------------------------------------------
\* C29: after a movement update that integrates an acceleration (linear, or
\* seek with a target away from the entity) the magnitude of the velocity in
\* the kinematics record is at most the max_speed of that record.
C29_SpeedWithinMax ==
    [][ \A d \in MoveDtInputs :
          (movement_update(d)
             /\ (Runs("linear")
                   \/ (Runs("seek")
                         /\ entity_movements.target_position # None
                         /\ entity_movements.target_position
                               # Some(position)))) =>
              Abs(entity_movements'.velocity) <= entity_movements'.max_speed
      ]_vars

\* ---- C30 -----------------------------------------------------------------
\* the law of one tick of patrol movement: within the arrival tolerance of
\* the current waypoint the index advances by one modulo the number of
\* waypoints and the position stays, otherwise the entity moves straight
\* towards that waypoint by speed times dt and the index stays
PatrolLaw(d) ==
    IF Abs(CurrentWaypoint - position) < Assigned.arrival_tolerance
    THEN /\ entity_movements'.current_path_index =
               (CurrentIndex + 1) % Len(Assigned.waypoints)
         /\ position' = position
    ELSE /\ entity_movements'.current_path_index = CurrentIndex
         /\ position' = position
               + Sign(CurrentWaypoint - position) * Assigned.speed * d

\* C30 as stated: every tick of patrol movement follows the law, and with
\* waypoints (0,0) and (100,0), start (0,0), tolerance 5 and speed 50 the
\* entity is within the tolerance of x = 100 with index 1 after ticks that
\* make 2.0 s, whatever the length of the ticks.
C30_PatrolAnyTicks ==
    [][ \A d \in MoveDtInputs :
          (movement_update(d) /\ Runs("patrol")) =>
              /\ PatrolLaw(d)
              /\ (origin = 0 /\ mv_time' = 2 * PerSecond) =>
                     /\ Abs(WaypointX - position') < Assigned.arrival_tolerance
                     /\ entity_movements'.current_path_index = 1 ]_vars

\* C30, amended: every tick of patrol movement follows the law, and in the
\* scenario the entity is within the tolerance of x = 100 with index 1 after
\* forty ticks of 0.05 s, the ticks of the scheduler at speed 1.0.
C30_PatrolStep ==
    [][ \A d \in MoveDtInputs :
          (movement_update(d) /\ Runs("patrol")) =>
              /\ PatrolLaw(d)
              /\ (origin = 0 /\ mv_time' = 2 * PerSecond
                             /\ mv_updates' = mv_time') =>
                     /\ Abs(WaypointX - position') < Assigned.arrival_tolerance
                     /\ entity_movements'.current_path_index = 1 ]_vars

\* the end of the scenario: forty ticks of 0.05 s from x = 0 have brought the
\* entity to x = 97.5 with the second waypoint as its current one
C30_Witness ==
    /\ origin = 0
    /\ Runs("patrol")
    /\ mv_updates = 2 * PerSecond
    /\ mv_time = 2 * PerSecond
    /\ position = 1950
    /\ entity_movements.current_path_index = 1

\* ---- vocabulary of the game-manager claims -------------------------------

\* goal_data.get('target_position') of the entity's decision state, as an
\* optional value
GoalTarget ==
    IF ai_state = NoState THEN None
    ELSE Get(ai_state.memory.goal_data, "target_position")

\* ---- C22 -----------------------------------------------------------------
\* C22: when the update of a logic tick has completed, an entity that has a
\* decision state and a kinematics record and whose goal data hold a target
\* position has that position as the target of its kinematics record.
C22_TargetSameTick ==
    [][ \A d \in DtInputs, env \in Percepts :
          (update_game_logic(d, env)
             /\ GoalTarget' # None /\ entity_movements' # NoMovement) =>
              entity_movements'.target_position = GoalTarget' ]_vars

\* the guard first went for the other entity and then, in the second tick,
\* for its own place: the record holds the target of the second tick
C22_Witness ==
    /\ ai_updates = 2
    /\ best_behavior = "station_guard"
    /\ entity_movements # NoMovement
    /\ ai_state.memory.last_seen_targets = {}
    /\ used_target = Some(OtherX)
    /\ GoalTarget # Some(OtherX)
    /\ GoalTarget # None
    /\ entity_movements.target_position = GoalTarget

\* ---- C23 -----------------------------------------------------------------
\* C23: the synchronization runs between the decision update and the
\* movement update of the same advance: when the movement update of a tick
\* steers to a target, it is the target position that the decision update of
\* that tick left in the goal data.
C23_MovementUsesSameTick ==
    [][ \A d \in DtInputs, env \in Percepts :
          (update_game_logic(d, env) /\ GoalTarget' # None
             /\ Runs("seek")) =>
              used_target' = GoalTarget' ]_vars

\* ---- C28 -----------------------------------------------------------------
\* the definitions of a document whose type is one of classes
KnownDefs(doc, classes) ==
    {doc.behaviors[i] : i \in {j \in 1 .. Len(doc.behaviors) :
                                  doc.behaviors[j].type \in classes}}

\* what a registry holds after loading doc, as a set: the definitions of doc
\* with a known type, and the behaviours it held under other names
AfterLoad(reg, doc, classes) ==
    KnownDefs(doc, classes)
       \cup {reg[i] : i \in {j \in 1 .. Len(reg) :
                 \A b \in KnownDefs(doc, classes) : b.name # reg[j].name}}

Range(seq) == {seq[i] : i \in 1 .. Len(seq)}

C34_NoLostIncrement ==
    [][ \A a \in Updaters :
          /\ tick_write(a) => tick' = tick + 1
          /\ game_time_write(a) => game_time' = game_time + dt[a] ]_vars

\* ---- C35 -----------------------------------------------------------------
\* C35: for every sequence of start() and stop() calls, while the scheduler
\* is running at most one logic thread and at most one presentation thread
\* are alive in their loops, also when start() follows a stop() whose join
\* returned on its timeout.
C35_OneThreadOfEachKind ==
    is_running =>
        /\ Cardinality({t \in LogicAll : Alive(t)}) <= 1
        /\ Cardinality({t \in RenderAll : Alive(t)}) <= 1

\* ---- C36 -----------------------------------------------------------------
\* a logic advance is writing the clock; a presentation advance is in a
\* callback
LogicAdvancing  == \E t \in Logic : pc[t] = "wr_gt"
RenderAdvancing == \E t \in Render : pc[t] = "in_cb"

MoveDegenerate ==
    /\ entity_movements # NoMovement
    /\ \/ Runs("patrol") /\ Assigned.waypoints = <<>>
       \/ Runs("patrol") /\ Assigned.waypoints # <<>>
            /\ CurrentWaypoint = position
       \/ Runs("seek") /\ entity_movements.target_position = Some(position)

\* the names of the decision behaviours whose lists are empty
EmptyListed == {"empty_patrol", "empty_trade", "hollow_trade"}

\* C31: no behaviour raises an error on degenerate input: with an empty
\* waypoint list, an empty trade-route list or a zero distance between the
\* entity and its target the behaviour returns normally and the position of
\* the entity is as before.
C31_DegenerateNoError ==
    [][ \A d \in DtInputs, env \in Percepts :
          update_game_logic(d, env) =>
              /\ best_behavior' \in EmptyListed => raised' = NoError
              /\ (mv_updates' # mv_updates /\ MoveDegenerate) =>
                    raised' = NoError /\ position' = position ]_vars

\* a seek has been updated while the entity stood on its target, and a
\* decision behaviour without list has been executed
C31_Witness ==
    /\ mv_updates = 1
    /\ Runs("seek")
    /\ entity_movements.target_position = Some(position)
    /\ used_target = Some(position)
    /\ position = origin
    /\ best_behavior \in EmptyListed
    /\ raised = NoError

\* ---- C32 -----------------------------------------------------------------
\* C32: no update tick changes a behaviour object: after the decision update
\* and the movement update of a tick every registered behaviour has the
\* fields it had before.
C32_BehavioursUntouched ==
    [][ \A d \in DtInputs, env \in Percepts :
          update_game_logic(d, env) =>
              /\ behaviors' = behaviors
              /\ movement_behaviors' = movement_behaviors ]_vars

\* ---- C37 -----------------------------------------------------------------
\* C37: whenever a decision patrol executes, the index it reads from
\* goal_data['current_waypoint'] is an index of its own waypoint list, so
\* that waypoints[current_wp] raises no IndexError, whatever the registered
\* patrols and whatever goal data a component brought.
C37_WaypointIndexValid ==
    [][ \A d \in DtInputs, env \in Percepts :
          (update_game_logic(d, env) /\ best_behavior' = "long_patrol") =>
              raised' # "IndexError" ]_vars

\* ---- C38 -----------------------------------------------------------------
\* C38: a fault raised while the decision update processes an entity does
\* not stop the rest of the tick: whatever the decision update raised, the
\* movement update of the same advance runs, and so does the
\* synchronization.
C38_FaultDoesNotStopTick ==
    [][ \A d \in DtInputs, env \in Percepts :
          update_game_logic(d, env) =>
              /\ mv_updates' = mv_updates + 1
              /\ (GoalTarget' # None /\ entity_movements' # NoMovement) =>
                    entity_movements'.target_position = GoalTarget' ]_vars

\* ---- C33 -----------------------------------------------------------------
\* the fields of a kinematics record other than the target
Kinematics(md) ==
    IF md = NoMovement THEN md ELSE [md EXCEPT !.target_position = None]

\* C33: the two subsystems are coupled only through the copied target.  In
\* an advance that completes, the decision state and the component are the
\* ones the decision update leaves (the movement update and the
\* synchronization change neither), the position is the one the movement
\* update computes from the position and the kinematics record of before the
\* advance (the decision update changes neither), and the synchronization
\* changes nothing of the kinematics record but its target.  On their own,
\* a decision update leaves position and kinematics record as they are and a
\* movement update leaves the decision state and component as they are.
C33_CoupledOnlyByTarget ==
    [][ /\ \A d \in DtInputs, env \in Percepts :
             (update_game_logic(d, env) /\ raised' = NoError) =>
                 LET r == Update(behaviors, ai_state, ai_component, d, env)
                 IN  /\ ai_state' = r.state
                     /\ ai_component' = r.component
                     /\ \E turn \in Turns :
                          LET m == MovementUpdate(movement_behaviors,
                                       entity_behaviors, entity_movements,
                                       position, d * PerSecond, turn)
                          IN  /\ position' = m.position
                              /\ Kinematics(entity_movements')
                                    = Kinematics(m.movement)
        /\ \A d \in DtInputs, env \in Percepts :
             ai_update(d, env) =>
                 position' = position /\ entity_movements' = entity_movements
        /\ \A d \in MoveDtInputs :
             movement_update(d) =>
                 ai_state' = ai_state /\ ai_component' = ai_component ]_vars

\* a second advance in which all three acted: the entity moved with a
\* velocity, its decision state used energy and its record has the target
C33_Witness ==
    /\ ai_updates = 2
    /\ mv_updates = 2
    /\ raised = NoError
    /\ position # origin
    /\ entity_movements # NoMovement
    /\ entity_movements.velocity # 0
    /\ ai_state # NoState
    /\ ai_state.energy < Full
    /\ GoalTarget # None
    /\ entity_movements.target_position = GoalTarget

\* ---- C39 -----------------------------------------------------------------
\* the test of HuntBehavior._execute on the state it leaves: some remembered
\* time of the other entity is less than memory_duration before state_time
HuntRecalls(st) ==
    /\ st # NoState
    /\ \E t \in Get(st.memory.last_seen_times, OtherId) :
          st.state_time - t < MemoryDuration

\* C39: when a hunt behaviour that detects nothing sets the target position
\* to the remembered position of a target, that target was last seen less
\* than memory_duration simulated seconds before, also when the entity ran
\* other behaviours in between.
C39_MemoryExpires ==
    [][ \A d \in DtInputs :
          (ai_update_clocked(d, "clear")
             /\ best_behavior' = "pirate_hunt" /\ HuntRecalls(ai_state')) =>
              /\ seen_at # Never
              /\ ai_time' - seen_at < MemoryDuration ]_vars

\* ---- C40 -----------------------------------------------------------------
WaypointIndexes == {0, 1}

\* the entity patrols a route with a waypoint, and each step speed * dt that
\* an update can make is smaller than twice the arrival tolerance
SmallStep ==
    /\ Runs("patrol")
    /\ Assigned.waypoints # <<>>
    /\ \A d \in PatrolDts : Assigned.speed * d < 2 * Assigned.arrival_tolerance

\* after the first update, waypoint i is the current waypoint
Heading(i) ==
    /\ mv_updates > 0
    /\ SmallStep
    /\ entity_movements.path_points # <<>>
    /\ entity_movements.current_path_index = i

\* the entity is within the tolerance of its current waypoint i
Within(i) ==
    /\ Heading(i)
    /\ Abs(CurrentWaypoint - position) < Assigned.arrival_tolerance

\* the waypoint after waypoint i is the current one
HeadingAfter(i) ==
    /\ Runs("patrol")
    /\ entity_movements.path_points # <<>>
    /\ entity_movements.current_path_index
          = (i + 1) % Len(entity_movements.path_points)

====
